---- MODULE Spec2Model ----
(***************************************************************************)
(* Build request collapsing (master/buildbot/process/buildrequest.py):     *)
(* the store of build requests, buildsets and builders, the default        *)
(* collapse oracle BuildRequest.canBeCollapsed, and the collapse pass      *)
(* BuildRequestCollapser.collapse running concurrently with other passes   *)
(* and with workers claiming requests for execution; the assembly of a     *)
(* BuildRequest (_make_br), the merge helpers mergeReasons and             *)
(* mergeSourceStampsWith, and the changesource-master link of              *)
(* db.changesources as test/unit/db/test_changesources.py exercises it,    *)
(* and the build numbering of db.builds.addBuild as                        *)
(* test/unit/db/test_builds.py exercises it.                               *)
(***************************************************************************)
EXTENDS Integers, Sequences, FiniteSets, TLC

\* ------------------------------------------------------------------ bounds
NumReq == 3
NumBuilders == 2
NumPasses == 2
MaxBatch == 2
MaxRuns == 2
MaxEdits == 2
MaxOthers == 2
NumChangeSources == 2
NumMasters == 2
NumCallers == 3
MaxInitialNumber == 2
MaxBuildNumber == 3

Requests == 1..NumReq
Buildsets == 1..NumReq
BuilderIds == 1..NumBuilders
Passes == 1..NumPasses

\* ------------------------------------------------------------ python values
None == "None"
SKIPPED == "SKIPPED"
SUCCESS == "SUCCESS"
RETRY == "RETRY"

\* ------------------------------------------------------------------- state
VARIABLES
    buildrequests,      \* store: brid -> [buildrequestid, buildsetid, builderid, submitted_at]
    buildsets,          \* store: bsid -> [sourcestamps, properties]
    builders,           \* botmaster: builderid -> [registered, collapseRequestsFn]
    claimedby,          \* store: brid -> the actor holding the claim
    complete,           \* store: brid -> BOOLEAN
    results,            \* store: brid -> result code
    pc,                 \* pass -> position in collapse()
    brids,              \* pass -> self.brids
    idx,                \* pass -> index of the for loop of line 60
    brids_to_collapse,  \* pass -> set built by lines 58-84
    attempted,          \* pass -> members of brids_to_collapse the loop of line 87 has visited
    brid,               \* pass -> loop variable of line 87 while its claim is held
    collapsed_brids,    \* pass -> list built by lines 86-91
    run,                \* pass -> how many times collapse() was called on this batch
    first_collapsed,    \* pass -> what the first call returned
    won,                \* pass -> ids whose claim by the current call succeeded
    lost,               \* pass -> ids whose claim by the current call failed
    completed_by,       \* pass -> ids the current call passed to completeBuildRequests
    wins,               \* brid -> actors whose claim on it succeeded
    complete_calls,     \* brid -> number of completeBuildRequests(.., SKIPPED) calls
    claim_calls,        \* pass -> brid -> number of claimBuildRequests([brid]) calls
    new_br, old_br,     \* arguments of the last canBeCollapsed evaluation
    canCollapse,        \* its outcome
    edits,              \* number of store edits made while exploring the oracle
    buildrequest,       \* outcome of the last _make_br(master, brdict)
    merge_reqs,         \* [self, *others] of the merge helpers
    merged_reasons,     \* what mergeReasons(others) returned
    merged_sources,     \* what mergeSourceStampsWith(others) returned
    calls,              \* the merge helpers that have returned
    masters,            \* store: masterid -> [active]
    changesource_masters, \* store: rows (changesourceid, masterid) of the link table
    cs_call,            \* the last setChangeSourceMaster call and its outcome
    builds,             \* store: rows [id, builderid, number] of the builds table
    adding,             \* caller -> position and locals of its addBuild call
    data_builds,        \* data API: rows [builderid, number, results] of the builds
    previous            \* position and locals of the getPreviousBuild call

storeVars == <<buildrequests, buildsets, builders, claimedby, complete, results>>
passVars == <<pc, brids, idx, brids_to_collapse, attempted, brid, collapsed_brids,
              run, first_collapsed, won, lost, completed_by>>
ghostVars == <<wins, complete_calls, claim_calls>>
oracleVars == <<new_br, old_br, canCollapse, edits>>
mergeVars == <<merge_reqs, merged_reasons, merged_sources, calls>>
changesourceVars == <<masters, changesource_masters, cs_call>>
buildsVars == <<builds, adding>>
reporterVars == <<data_builds, previous>>
otherVars == <<buildrequest, mergeVars, changesourceVars, buildsVars, reporterVars>>
vars == <<storeVars, passVars, ghostVars, oracleVars, otherVars>>

\* ------------------------------------------------------------------ actors
NoOne == <<"none", 0>>
Worker == <<"worker", 0>>
Pass(p) == <<"pass", p>>

Range(s) == {s[k] : k \in DOMAIN s}

\* ------------------------------------------------------------ store content
\* Values a sourcestamp's fields and a buildset's properties range over.
Codebases == {"cb1", "cb2"}
Repositories == {"X", "Y"}
Branches == {None, "main"}
Projects == {"P", "Q"}
Patches == {None, "patch"}
Revisions == {None, "aaa", "bbb"}
ChangeLists == {{}, {1}, {2}}
PropNames == {"scheduler", "owner"}
PropValues == {"v1", "v2"}
PropSources == {"Scheduler", "Force"}

SSField == {"repository", "branch", "project", "patch", "revision", "changes"}
FieldValues(f) ==
    CASE f = "repository" -> Repositories
      [] f = "branch" -> Branches
      [] f = "project" -> Projects
      [] f = "patch" -> Patches
      [] f = "revision" -> Revisions
      [] f = "changes" -> ChangeLists

\* One sourcestamp of a buildset as data.get(('buildsets', id)) lists it, with
\* the changes data.get(('sourcestamps', ssid, 'changes')) returns for it.
BaseSS(c, rev, chg) ==
    [codebase |-> c, repository |-> "X", branch |-> "main", project |-> "P",
     patch |-> None, revision |-> rev, changes |-> chg]

BaseProps == [name \in {"owner"} |-> <<"v1", "Scheduler">>]

\* A text is the tuple of its characters; NoText is Python's None where a
\* text is expected.
NoText == <<None>>

BaseBuildset(rev, chg) ==
    [sourcestamps |-> <<BaseSS("cb1", rev, chg)>>, properties |-> BaseProps,
     reason |-> <<"a">>]

\* ------------------------------------------------------------- the oracle
FilterBySourceOnly(bs_props) ==
    LET keep == {name \in DOMAIN bs_props : bs_props[name][2] = "Scheduler"}
    IN  [name \in keep |-> bs_props[name][1]]

\* BuildRequest.filter_buildset_props_for_collapsing
filter_buildset_props_for_collapsing(bs_props) ==
    LET keep == {name \in DOMAIN bs_props :
                    name # "scheduler" /\ bs_props[name][2] = "Scheduler"}
    IN  [name \in keep |-> bs_props[name][1]]

\* dict((ss['codebase'], ss) for ss in bs['sourcestamps']): the last
\* sourcestamp of a codebase is the one kept.
SourcesByCodebase(sourcestamps) ==
    [c \in {sourcestamps[k].codebase : k \in DOMAIN sourcestamps} |->
        sourcestamps[CHOOSE k \in DOMAIN sourcestamps :
            /\ sourcestamps[k].codebase = c
            /\ \A m \in DOMAIN sourcestamps : sourcestamps[m].codebase = c => m <= k]]

\* The keys of that dict in iteration order: first insertion first.
RECURSIVE CodebaseOrder(_, _)
CodebaseOrder(sourcestamps, seen) ==
    IF sourcestamps = <<>> THEN <<>>
    ELSE LET c == Head(sourcestamps).codebase
         IN  IF c \in seen THEN CodebaseOrder(Tail(sourcestamps), seen)
             ELSE <<c>> \o CodebaseOrder(Tail(sourcestamps), seen \cup {c})

BranchesBothSetAndDiffer(selfSS, otherSS) ==
    selfSS.branch # None /\ otherSS.branch # None /\ selfSS.branch # otherSS.branch

\* Line 293: if selfSS['branch'] != otherSS['branch']
BranchesDiffer(selfSS, otherSS) == selfSS.branch # otherSS.branch

SelfHasPatch(selfSS, otherSS) == selfSS.patch # None

\* Line 300: if selfSS['patch'] or otherSS['patch']
HasPatch(selfSS, otherSS) == selfSS.patch # None \/ otherSS.patch # None

SelfOnlyHasChanges(selfSS, otherSS) == selfSS.changes # {} /\ otherSS.changes = {}

\* Lines 309-313: exactly one of the two sourcestamps has changes.
OneSideHasChanges(selfSS, otherSS) ==
    \/ selfSS.changes # {} /\ otherSS.changes = {}
    \/ selfSS.changes = {} /\ otherSS.changes # {}

BothHaveTheSameChanges(selfSS, otherSS) ==
    selfSS.changes # {} /\ selfSS.changes = otherSS.changes

\* Line 306: if selfChanges and otherChanges
BothHaveChanges(selfSS, otherSS) == selfSS.changes # {} /\ otherSS.changes # {}

NullRevisionDiffers(selfSS, otherSS) ==
    selfSS.revision = None \/ otherSS.revision = None \/ selfSS.revision # otherSS.revision

RevisionsBothSetAndDiffer(selfSS, otherSS) ==
    selfSS.revision # None /\ otherSS.revision # None /\ selfSS.revision # otherSS.revision

\* Line 316: if selfSS['revision'] != otherSS['revision']
RevisionsDiffer(selfSS, otherSS) == selfSS.revision # otherSS.revision

\* The loop of lines 288-317 over selfSources.items(); reads records which
\* store tables were read.
RECURSIVE CompareSources(_, _, _, _)
CompareSources(keys, selfSources, otherSources, reads) ==
    IF keys = <<>> THEN [result |-> TRUE, reads |-> reads]
    ELSE
      LET selfSS == selfSources[Head(keys)]
          otherSS == otherSources[Head(keys)]
          reads2 == reads \cup {"changes"}
      IN  IF selfSS.repository # otherSS.repository
            THEN [result |-> FALSE, reads |-> reads]
          ELSE IF BranchesDiffer(selfSS, otherSS)
            THEN [result |-> FALSE, reads |-> reads]
          ELSE IF selfSS.project # otherSS.project
            THEN [result |-> FALSE, reads |-> reads]
          ELSE IF HasPatch(selfSS, otherSS)
            THEN [result |-> FALSE, reads |-> reads]
          ELSE IF BothHaveChanges(selfSS, otherSS)
            THEN CompareSources(Tail(keys), selfSources, otherSources, reads2)
          ELSE IF OneSideHasChanges(selfSS, otherSS)
            THEN [result |-> FALSE, reads |-> reads2]
          ELSE IF RevisionsDiffer(selfSS, otherSS)
            THEN [result |-> FALSE, reads |-> reads2]
          ELSE CompareSources(Tail(keys), selfSources, otherSources, reads2)

NewHasCodebaseOldLacks(selfSources, otherSources) ==
    ~(DOMAIN selfSources \subseteq DOMAIN otherSources)

\* Line 285: if set(selfSources) != set(otherSources)
CodebasesDiffer(selfSources, otherSources) == DOMAIN selfSources # DOMAIN otherSources

CommonPropsDiffer(new_bs_props, old_bs_props) ==
    \E name \in DOMAIN new_bs_props \cap DOMAIN old_bs_props :
        new_bs_props[name] # old_bs_props[name]

OldLacksNewProps(new_bs_props, old_bs_props) ==
    \E name \in DOMAIN new_bs_props :
        name \notin DOMAIN old_bs_props \/ new_bs_props[name] # old_bs_props[name]

\* Line 325: if new_bs_props != old_bs_props
PropsDiffer(new_bs_props, old_bs_props) == new_bs_props # old_bs_props

SameBuildsetAndNotOlder(new, old) ==
    new.buildsetid = old.buildsetid /\ new.buildrequestid >= old.buildrequestid

\* Line 267: the same-buildset short-circuit.
SameBuildset(new, old) == new.buildsetid = old.buildsetid

NewIsNewer(new, old) == new.buildrequestid > old.buildrequestid

\* Line 273: the new request must not be older than the old one.
NewIsOlder(new, old) == new.buildrequestid < old.buildrequestid

\* BuildRequest.canBeCollapsed(master, new_br, old_br)
canBeCollapsed(new, old) ==
    IF SameBuildset(new, old) THEN [result |-> TRUE, reads |-> {}]
    ELSE IF NewIsOlder(new, old) THEN [result |-> FALSE, reads |-> {}]
    ELSE
      LET selfBuildsets == buildsets[new.buildsetid]
          otherBuildsets == buildsets[old.buildsetid]
          selfSources == SourcesByCodebase(selfBuildsets.sourcestamps)
          otherSources == SourcesByCodebase(otherBuildsets.sourcestamps)
          reads == {"buildsets"}
      IN  IF CodebasesDiffer(selfSources, otherSources)
            THEN [result |-> FALSE, reads |-> reads]
          ELSE
            LET cmp == CompareSources(CodebaseOrder(selfBuildsets.sourcestamps, {}),
                                      selfSources, otherSources, reads)
            IN  IF ~cmp.result THEN cmp
                ELSE
                  LET new_bs_props ==
                          filter_buildset_props_for_collapsing(selfBuildsets.properties)
                      old_bs_props ==
                          filter_buildset_props_for_collapsing(otherBuildsets.properties)
                  IN  [result |-> ~PropsDiffer(new_bs_props, old_bs_props),
                       reads |-> cmp.reads \cup {"properties"}]

\* Python values a collapse function returns.
PyTrue == "True"
PyFalse == "False"
PyOne == "1"

\* ------------------------------------------------------------ the store API
AllRequestsOf(builderid) == {r \in Requests : buildrequests[r].builderid = builderid}

\* data.get(('builders', builderid, 'buildrequests'), [Filter('claimed', 'eq', [False])])
UnclaimedOf(builderid) ==
    {r \in Requests : buildrequests[r].builderid = builderid /\ claimedby[r] = NoOne}

\* list.sort(key=submitted_at) of the store's rows (returned in id order): a
\* stable sort, so rows with equal submitted_at keep their id order.
RECURSIVE SortBySubmittedAt(_)
SortBySubmittedAt(S) ==
    IF S = {} THEN <<>>
    ELSE LET first == CHOOSE x \in S : \A y \in S :
                          \/ buildrequests[x].submitted_at < buildrequests[y].submitted_at
                          \/ /\ buildrequests[x].submitted_at = buildrequests[y].submitted_at
                             /\ x <= y
         IN  <<buildrequests[first]>> \o SortBySubmittedAt(S \ {first})

\* BuildRequestCollapser._getUnclaimedBrs
GetUnclaimedBrs(builderid) == SortBySubmittedAt(UnclaimedOf(builderid))

\* data.updates.claimBuildRequests(ids): succeeds only if every id is unclaimed.
CanClaim(ids) == \A r \in ids : claimedby[r] = NoOne

\* ------------------------------------------------------- the collapse pass
\* Callables a builder's collapseRequests may be configured with, by what
\* they return for every pair of requests.
CustomCollapseFns ==
    [fn \in {"returnsTrue", "returnsFalse", "returnsOne", "returnsNone"} |->
        CASE fn = "returnsTrue" -> PyTrue
          [] fn = "returnsFalse" -> PyFalse
          [] fn = "returnsOne" -> PyOne
          [] fn = "returnsNone" -> None]

\* collapseRequestsFn(master, bldr, br, unclaim_br): the default is
\* BuildRequest.canBeCollapsed.
CallCollapseRequestsFn(fn, br, unclaim_br) ==
    IF fn \in DOMAIN CustomCollapseFns THEN CustomCollapseFns[fn]
    ELSE IF canBeCollapsed(br, unclaim_br).result THEN PyTrue ELSE PyFalse

IsTruthy(returned) == returned \notin {PyFalse, None}

\* Line 83: if canCollapse is True
IsTrue(returned) == returned = PyTrue

\* The loop of lines 78-84 left at its first match.
FirstVictimOnly(fn, br, unclaim_brs) ==
    LET hits == {k \in DOMAIN unclaim_brs :
                    /\ unclaim_brs[k].buildrequestid # br.buildrequestid
                    /\ IsTrue(CallCollapseRequestsFn(fn, br, unclaim_brs[k]))}
    IN  {unclaim_brs[k].buildrequestid : k \in {k \in hits : \A m \in hits : k <= m}}

VictimsWithSelf(fn, br, unclaim_brs) ==
    {unclaim_brs[k].buildrequestid : k \in
        {k \in DOMAIN unclaim_brs :
            IsTrue(CallCollapseRequestsFn(fn, br, unclaim_brs[k]))}}

\* Lines 78-84: the candidates of one new request that are added to
\* brids_to_collapse.
Victims(fn, br, unclaim_brs) ==
    {unclaim_brs[k].buildrequestid : k \in
        {k \in DOMAIN unclaim_brs :
            /\ unclaim_brs[k].buildrequestid # br.buildrequestid
            /\ IsTrue(CallCollapseRequestsFn(fn, br, unclaim_brs[k]))}}

VictimsOfWithoutFnCheck(new_brid) ==
    LET br == buildrequests[new_brid]
        bldr == builders[br.builderid]
        unclaim_brs == GetUnclaimedBrs(br.builderid)
    IN  IF ~bldr.registered THEN {}
        ELSE IF unclaim_brs = <<>> THEN {}
        ELSE Victims(bldr.collapseRequestsFn, br, unclaim_brs)

\* Lines 60-76: what one new request contributes.
VictimsOf(new_brid) ==
    LET br == buildrequests[new_brid]
        bldr == builders[br.builderid]
        collapseRequestsFn == bldr.collapseRequestsFn
        unclaim_brs == GetUnclaimedBrs(br.builderid)
    IN  IF ~bldr.registered THEN {}
        ELSE IF collapseRequestsFn = None \/ unclaim_brs = <<>> THEN {}
        ELSE Victims(collapseRequestsFn, br, unclaim_brs)

ProceedAlways(claimed) == TRUE

\* Line 89: if claimed:
ProceedToComplete(claimed) == claimed

\* Where the pass stands once the loop of line 87 has visited `visited`.
AfterClaimLoop(to_collapse, visited) ==
    IF to_collapse \ visited = {} THEN "done" ELSE "claim"

Batches ==
    {b \in UNION {[1..n -> Requests] : n \in 1..MaxBatch} :
        \A i, j \in DOMAIN b : i # j => b[i] # b[j]}

\* BuildRequestCollapser(master, brids).collapse() is called.
StartPass(p) ==
    /\ pc[p] = "idle"
    /\ \A q \in Passes : q < p => pc[q] # "idle"
    /\ \E b \in Batches : brids' = [brids EXCEPT ![p] = b]
    /\ pc' = [pc EXCEPT ![p] = "eval"]
    /\ idx' = [idx EXCEPT ![p] = 1]
    /\ UNCHANGED <<storeVars, ghostVars, oracleVars, otherVars, brids_to_collapse, attempted,
                   brid, collapsed_brids, run, first_collapsed, won, lost, completed_by>>

ProcessBridThenClaim(p) ==
    /\ pc[p] = "eval"
    /\ LET to_collapse == brids_to_collapse[p] \cup VictimsOf(brids[p][idx[p]])
       IN  /\ brids_to_collapse' = [brids_to_collapse EXCEPT ![p] = to_collapse]
           /\ idx' = idx
           /\ pc' = [pc EXCEPT ![p] = AfterClaimLoop(to_collapse, {})]
    /\ UNCHANGED <<storeVars, ghostVars, oracleVars, otherVars, brids, attempted, brid,
                   collapsed_brids, run, first_collapsed, won, lost, completed_by>>

ProcessBridAndClaim(p) ==
    /\ pc[p] = "eval"
    /\ LET to_collapse == brids_to_collapse[p] \cup VictimsOf(brids[p][idx[p]])
       IN  /\ brids_to_collapse' = [brids_to_collapse EXCEPT ![p] = to_collapse]
           /\ IF idx[p] < Len(brids[p])
                THEN /\ idx' = [idx EXCEPT ![p] = @ + 1]
                     /\ pc' = pc
                ELSE /\ idx' = idx
                     /\ pc' = [pc EXCEPT ![p] = AfterClaimLoop(to_collapse, {})]
    /\ claimedby' = [r \in Requests |->
                        IF r \in VictimsOf(brids[p][idx[p]]) /\ CanClaim({r})
                          THEN Pass(p) ELSE claimedby[r]]
    /\ wins' = [r \in Requests |->
                   IF r \in VictimsOf(brids[p][idx[p]]) /\ CanClaim({r})
                     THEN wins[r] \cup {Pass(p)} ELSE wins[r]]
    /\ UNCHANGED <<buildrequests, buildsets, builders, complete, results,
                   complete_calls, claim_calls, oracleVars, otherVars, brids, attempted, brid,
                   collapsed_brids, run, first_collapsed, won, lost, completed_by>>

\* Lines 60-84 for one new request id: the unclaimed list is read once (line
\* 72); every other read is of data that no actor changes.
ProcessBrid(p) ==
    /\ pc[p] = "eval"
    /\ LET to_collapse == brids_to_collapse[p] \cup VictimsOf(brids[p][idx[p]])
       IN  /\ brids_to_collapse' = [brids_to_collapse EXCEPT ![p] = to_collapse]
           /\ IF idx[p] < Len(brids[p])
                THEN /\ idx' = [idx EXCEPT ![p] = @ + 1]
                     /\ pc' = pc
                ELSE /\ idx' = idx
                     /\ pc' = [pc EXCEPT ![p] = AfterClaimLoop(to_collapse, {})]
    /\ UNCHANGED <<storeVars, ghostVars, oracleVars, otherVars, brids, attempted, brid,
                   collapsed_brids, run, first_collapsed, won, lost, completed_by>>

ClaimStepStopsOnLoss(p) ==
    /\ pc[p] = "claim"
    /\ \E b \in brids_to_collapse[p] \ attempted[p] :
         LET claimed == CanClaim({b})
             visited == attempted[p] \cup {b}
         IN  /\ attempted' = [attempted EXCEPT ![p] = visited]
             /\ claimedby' = IF claimed THEN [claimedby EXCEPT ![b] = Pass(p)]
                             ELSE claimedby
             /\ claim_calls' = [claim_calls EXCEPT ![p][b] = @ + 1]
             /\ wins' = IF claimed THEN [wins EXCEPT ![b] = @ \cup {Pass(p)}] ELSE wins
             /\ won' = IF claimed THEN [won EXCEPT ![p] = @ \cup {b}] ELSE won
             /\ lost' = IF claimed THEN lost ELSE [lost EXCEPT ![p] = @ \cup {b}]
             /\ IF ProceedToComplete(claimed)
                  THEN /\ pc' = [pc EXCEPT ![p] = "complete"]
                       /\ brid' = [brid EXCEPT ![p] = b]
                  ELSE /\ pc' = [pc EXCEPT ![p] = "done"]
                       /\ brid' = brid
    /\ UNCHANGED <<buildrequests, buildsets, builders, complete, results, complete_calls,
                   oracleVars, otherVars, brids, idx, brids_to_collapse, collapsed_brids, run,
                   first_collapsed, completed_by>>

ClaimStepRepeating(p) ==
    /\ pc[p] = "claim"
    /\ \E b \in brids_to_collapse[p] :
         LET claimed == CanClaim({b})
             visited == attempted[p] \cup {b}
         IN  /\ attempted' = [attempted EXCEPT ![p] = visited]
             /\ claimedby' = IF claimed THEN [claimedby EXCEPT ![b] = Pass(p)]
                             ELSE claimedby
             /\ claim_calls' = [claim_calls EXCEPT ![p][b] = @ + 1]
             /\ wins' = IF claimed THEN [wins EXCEPT ![b] = @ \cup {Pass(p)}] ELSE wins
             /\ won' = IF claimed THEN [won EXCEPT ![p] = @ \cup {b}] ELSE won
             /\ lost' = IF claimed THEN lost ELSE [lost EXCEPT ![p] = @ \cup {b}]
             /\ IF ProceedToComplete(claimed)
                  THEN /\ pc' = [pc EXCEPT ![p] = "complete"]
                       /\ brid' = [brid EXCEPT ![p] = b]
                  ELSE /\ pc' = [pc EXCEPT ![p] =
                                    AfterClaimLoop(brids_to_collapse[p], visited)]
                       /\ brid' = brid
    /\ UNCHANGED <<buildrequests, buildsets, builders, complete, results, complete_calls,
                   oracleVars, otherVars, brids, idx, brids_to_collapse, collapsed_brids, run,
                   first_collapsed, completed_by>>

\* Line 88: claimBuildRequests([brid]) for the next member of the set.
ClaimStep(p) ==
    /\ pc[p] = "claim"
    /\ \E b \in brids_to_collapse[p] \ attempted[p] :
         LET claimed == CanClaim({b})
             visited == attempted[p] \cup {b}
         IN  /\ attempted' = [attempted EXCEPT ![p] = visited]
             /\ claimedby' = IF claimed THEN [claimedby EXCEPT ![b] = Pass(p)]
                             ELSE claimedby
             /\ claim_calls' = [claim_calls EXCEPT ![p][b] = @ + 1]
             /\ wins' = IF claimed THEN [wins EXCEPT ![b] = @ \cup {Pass(p)}] ELSE wins
             /\ won' = IF claimed THEN [won EXCEPT ![p] = @ \cup {b}] ELSE won
             /\ lost' = IF claimed THEN lost ELSE [lost EXCEPT ![p] = @ \cup {b}]
             /\ IF ProceedToComplete(claimed)
                  THEN /\ pc' = [pc EXCEPT ![p] = "complete"]
                       /\ brid' = [brid EXCEPT ![p] = b]
                  ELSE /\ pc' = [pc EXCEPT ![p] =
                                    AfterClaimLoop(brids_to_collapse[p], visited)]
                       /\ brid' = brid
    /\ UNCHANGED <<buildrequests, buildsets, builders, complete, results, complete_calls,
                   oracleVars, otherVars, brids, idx, brids_to_collapse, collapsed_brids, run,
                   first_collapsed, completed_by>>

\* Lines 90-91, and line 93 after the last member.
CompleteStep(p) ==
    /\ pc[p] = "complete"
    /\ complete' = [complete EXCEPT ![brid[p]] = TRUE]
    /\ results' = [results EXCEPT ![brid[p]] = SKIPPED]
    /\ complete_calls' = [complete_calls EXCEPT ![brid[p]] = @ + 1]
    /\ completed_by' = [completed_by EXCEPT ![p] = @ \cup {brid[p]}]
    /\ collapsed_brids' = [collapsed_brids EXCEPT ![p] = Append(@, brid[p])]
    /\ brid' = [brid EXCEPT ![p] = 0]
    /\ pc' = [pc EXCEPT ![p] = AfterClaimLoop(brids_to_collapse[p], attempted[p])]
    /\ UNCHANGED <<buildrequests, buildsets, builders, claimedby, wins, claim_calls,
                   oracleVars, otherVars,
                   brids, idx, brids_to_collapse, attempted, run, first_collapsed,
                   won, lost>>

\* The pass stops at a suspension point and never resumes: the process is
\* restarted ("aborted") or the awaited store call raises ("raised"). Its
\* locals are gone; what it wrote to the store stays.
Stop(p, how) ==
    /\ pc[p] \in {"eval", "claim", "complete"}
    /\ pc' = [pc EXCEPT ![p] = how]
    /\ idx' = [idx EXCEPT ![p] = 0]
    /\ brids_to_collapse' = [brids_to_collapse EXCEPT ![p] = {}]
    /\ attempted' = [attempted EXCEPT ![p] = {}]
    /\ brid' = [brid EXCEPT ![p] = 0]
    /\ collapsed_brids' = [collapsed_brids EXCEPT ![p] = <<>>]
    /\ won' = [won EXCEPT ![p] = {}]
    /\ lost' = [lost EXCEPT ![p] = {}]
    /\ completed_by' = [completed_by EXCEPT ![p] = {}]
    /\ UNCHANGED <<storeVars, ghostVars, oracleVars, otherVars, brids, run, first_collapsed>>

Abort(p) == Stop(p, "aborted")

StoreFailSwallowed(p) ==
    /\ pc[p] \in {"eval", "claim", "complete"}
    /\ pc' = [pc EXCEPT ![p] = "done"]
    /\ UNCHANGED <<storeVars, ghostVars, oracleVars, otherVars, brids, idx,
                   brids_to_collapse, attempted, brid, collapsed_brids, run,
                   first_collapsed, won, lost, completed_by>>

\* An awaited store call of lines 57-93 raises: no handler encloses it, so the
\* exception leaves collapse().
StoreFail(p) == Stop(p, "raised")

\* collapse() is called again on the same batch.
Rerun(p) ==
    /\ pc[p] = "done"
    /\ run[p] < MaxRuns
    /\ run' = [run EXCEPT ![p] = @ + 1]
    /\ first_collapsed' = IF run[p] = 1
                            THEN [first_collapsed EXCEPT ![p] = collapsed_brids[p]]
                            ELSE first_collapsed
    /\ pc' = [pc EXCEPT ![p] = "eval"]
    /\ idx' = [idx EXCEPT ![p] = 1]
    /\ brids_to_collapse' = [brids_to_collapse EXCEPT ![p] = {}]
    /\ attempted' = [attempted EXCEPT ![p] = {}]
    /\ collapsed_brids' = [collapsed_brids EXCEPT ![p] = <<>>]
    /\ won' = [won EXCEPT ![p] = {}]
    /\ lost' = [lost EXCEPT ![p] = {}]
    /\ completed_by' = [completed_by EXCEPT ![p] = {}]
    /\ UNCHANGED <<storeVars, ghostVars, oracleVars, otherVars, brids, brid>>

\* ---------------------------------------------------------------- workers
\* A builder claims an unclaimed request to run it.
WorkerClaim(r) ==
    /\ CanClaim({r})
    /\ claimedby' = [claimedby EXCEPT ![r] = Worker]
    /\ wins' = [wins EXCEPT ![r] = @ \cup {Worker}]
    /\ UNCHANGED <<buildrequests, buildsets, builders, complete, results,
                   complete_calls, claim_calls, passVars, oracleVars, otherVars>>

\* -------------------------------------------------- BuildRequest._make_br
EmptyDict == [x \in {} |-> x]

\* No _make_br call has been made.
NotMade ==
    [brid |-> 0, raised |-> "not called", id |-> 0, bsid |-> 0, builderid |-> 0, submittedAt |-> 0,
     reason |-> NoText, properties |-> EmptyDict, sources |-> EmptyDict]

\* The call for request r raised: nothing is returned.
Raised(r, exception) == [NotMade EXCEPT !.brid = r, !.raised = exception]

\* master.db.buildsets.getBuildset(bsid) is not None
BuildsetExists(bsid) == bsid \in DOMAIN buildsets

AnySourcestamps(bsdata) == TRUE

\* Line 242: assert bsdata['sourcestamps']
HasSourcestamps(bsdata) == bsdata.sourcestamps # <<>>

\* BuildRequest._make_br(brid, brdict, master). Properties.fromDict keeps each
\* (value, source) pair under its name; the sources dict keeps the last
\* sourcestamp of a codebase.
make_br(brdict) ==
    IF ~BuildsetExists(brdict.buildsetid)
      THEN Raised(brdict.buildrequestid, "AssertionError")
    ELSE
      LET buildset == buildsets[brdict.buildsetid]
      IN  IF ~HasSourcestamps(buildset)
            THEN Raised(brdict.buildrequestid, "AssertionError")
          ELSE [brid |-> brdict.buildrequestid,
                raised |-> None,
                id |-> brdict.buildrequestid,
                bsid |-> brdict.buildsetid,
                builderid |-> brdict.builderid,
                submittedAt |-> brdict.submitted_at,
                reason |-> buildset.reason,
                properties |-> buildset.properties,
                sources |-> SourcesByCodebase(buildset.sourcestamps)]

\* BuildRequest._make_br is awaited for the row of request r.
MakeBr(r) ==
    /\ buildrequest = NotMade
    /\ buildrequest' = make_br(buildrequests[r])
    /\ UNCHANGED <<storeVars, passVars, ghostVars, oracleVars, mergeVars,
                   changesourceVars, buildsVars, reporterVars>>

\* ------------------------------------------------------- the merge helpers
\* Reasons a request carries: None, the empty text and non-empty texts.
Reasons == {NoText, <<>>, <<"a">>, <<"b">>, <<"a", "b">>}

\* The TempSourceStamp object that the request at position k of [self,
\* *others] holds for codebase c.
SourceStampOf(k, c) == [codebase |-> c, request |-> k]

AppendsIfNew(reason, reasons) == reason \notin Range(reasons)

\* Line 359: if req.reason and req.reason not in reasons
AppendsReason(reason, reasons) ==
    reason # NoText /\ reason # <<>> /\ reason \notin Range(reasons)

\* Lines 357-360: the loop over [self, *others].
RECURSIVE ReasonsLoop(_, _)
ReasonsLoop(reqs, reasons) ==
    IF reqs = <<>> THEN reasons
    ELSE ReasonsLoop(Tail(reqs),
                     IF AppendsReason(Head(reqs).reason, reasons)
                       THEN Append(reasons, Head(reqs).reason)
                       ELSE reasons)

\* sep.join(texts)
RECURSIVE join(_, _)
join(sep, texts) ==
    IF texts = <<>> THEN <<>>
    ELSE IF Len(texts) = 1 THEN texts[1]
    ELSE texts[1] \o sep \o join(sep, Tail(texts))

\* BuildRequest.mergeReasons(self, others)
mergeReasons(self, others) == join(<<",", " ">>, ReasonsLoop(<<self>> \o others, <<>>))

\* [req.sources[codebase] for req in reqs if codebase in req.sources]
RECURSIVE SourcesFor(_, _)
SourcesFor(codebase, reqs) ==
    IF reqs = <<>> THEN <<>>
    ELSE (IF codebase \in DOMAIN Head(reqs).sources
            THEN <<Head(reqs).sources[codebase]>> ELSE <<>>)
         \o SourcesFor(codebase, Tail(reqs))

FirstOf(all_sources) == all_sources[1]

\* Line 351: all_sources[-1]
LastOf(all_sources) == all_sources[Len(all_sources)]

\* Lines 333-335: the codebases of all requests.
AllCodebases(self, others) ==
    DOMAIN self.sources \cup UNION {DOMAIN others[k].sources : k \in DOMAIN others}

\* Lines 337-351: all_merged_sources.
AllMergedSources(self, others) ==
    [codebase \in AllCodebases(self, others) |->
        LastOf(SourcesFor(codebase, <<self>>) \o SourcesFor(codebase, others))]

\* The orders in which a set can be iterated.
Orders(S) ==
    {o \in [1..Cardinality(S) -> S] : \A i, j \in DOMAIN o : i # j => o[i] # o[j]}

\* self.mergeReasons(others) is called.
MergeReasons ==
    /\ "mergeReasons" \notin calls
    /\ merged_reasons' = mergeReasons(Head(merge_reqs), Tail(merge_reqs))
    /\ calls' = calls \cup {"mergeReasons"}
    /\ UNCHANGED <<storeVars, passVars, ghostVars, oracleVars, buildrequest,
                   merge_reqs, merged_sources, changesourceVars, buildsVars, reporterVars>>

\* self.mergeSourceStampsWith(others) is called: the returned list follows
\* the iteration order of the set all_codebases, which Python leaves open.
MergeSourceStampsWith(order) ==
    /\ "mergeSourceStampsWith" \notin calls
    /\ merged_sources' =
          [i \in DOMAIN order |->
              AllMergedSources(Head(merge_reqs), Tail(merge_reqs))[order[i]]]
    /\ calls' = calls \cup {"mergeSourceStampsWith"}
    /\ UNCHANGED <<storeVars, passVars, ghostVars, oracleVars, buildrequest,
                   merge_reqs, merged_reasons, changesourceVars, buildsVars, reporterVars>>

\* ------------------------------------------- db.changesources: master link
ChangeSources == 1..NumChangeSources
Masters == 1..NumMasters

\* masterid=None
NoMaster == 0

ChangeSourceAlreadyClaimedError == "ChangeSourceAlreadyClaimedError"

\* No setChangeSourceMaster call has been made.
NoCall == [changesourceid |-> 0, masterid |-> 0, linked |-> {}, raised |-> "not called"]

\* The masters the link table names for a changesource.
MastersOf(changesourceid) ==
    {m \in Masters : <<changesourceid, m>> \in changesource_masters}

ClaimedByActiveMaster(changesourceid) ==
    \E m \in MastersOf(changesourceid) : masters[m].active

\* The insert of a second row for a changesource is rejected.
AlreadyClaimed(changesourceid) == MastersOf(changesourceid) # {}

\* db.changesources.setChangeSourceMaster(changesourceid, masterid)
setChangeSourceMaster(changesourceid, masterid) ==
    /\ cs_call' = [changesourceid |-> changesourceid, masterid |-> masterid,
                   linked |-> MastersOf(changesourceid),
                   raised |-> IF masterid # NoMaster /\ AlreadyClaimed(changesourceid)
                                THEN ChangeSourceAlreadyClaimedError ELSE None]
    /\ changesource_masters' =
          IF masterid = NoMaster
            THEN {row \in changesource_masters : row[1] # changesourceid}
          ELSE IF AlreadyClaimed(changesourceid) THEN changesource_masters
          ELSE changesource_masters \cup {<<changesourceid, masterid>>}
    /\ UNCHANGED <<storeVars, passVars, ghostVars, oracleVars, buildrequest, mergeVars,
                   masters, buildsVars, reporterVars>>

\* ------------------------------------------------- db.builds: build numbers
Callers == 1..NumCallers

\* The numbers of the builds of a builder.
NumbersOf(builderid) == {b.number : b \in {b \in builds : b.builderid = builderid}}

\* The highest of a non-empty set of numbers.
Highest(S) == CHOOSE n \in S : \A m \in S : m <= n

\* select max(number) where builderid = ..: None (here 0) without builds.
MaxNumber(builderid) ==
    IF NumbersOf(builderid) = {} THEN 0 ELSE Highest(NumbersOf(builderid))

InsertNeverRejected(builderid, number) == FALSE

\* The insert of a second build with a builder's number is rejected.
InsertRejected(builderid, number) == number \in NumbersOf(builderid)

\* No addBuild call is under way.
NotAdding ==
    [pc |-> "idle", builderid |-> 0, first_number |-> 0, new_number |-> 0,
     highest |-> 0, id |-> 0, number |-> 0]

\* addBuild(builderid, ..) reads the builder's highest number.
AddBuildRead(c, builderid) ==
    /\ adding[c].pc = "idle"
    /\ \A d \in Callers : d < c => adding[d].pc # "idle"
    /\ adding' = [adding EXCEPT ![c] =
                      [NotAdding EXCEPT !.pc = "insert", !.builderid = builderid,
                                        !.first_number = MaxNumber(builderid) + 1,
                                        !.new_number = MaxNumber(builderid) + 1]]
    /\ UNCHANGED <<storeVars, passVars, ghostVars, oracleVars, buildrequest, mergeVars,
                   changesourceVars, builds, reporterVars>>

\* addBuild tries its insert: a rejected insert is repeated with the next
\* number, an accepted one is committed and (id, number) returned.
AddBuildInsert(c) ==
    /\ adding[c].pc = "insert"
    /\ IF InsertRejected(adding[c].builderid, adding[c].new_number)
         THEN /\ adding' = [adding EXCEPT ![c].new_number = @ + 1]
              /\ builds' = builds
         ELSE /\ builds' = builds \cup
                    {[id |-> Cardinality(builds) + 1, builderid |-> adding[c].builderid,
                      number |-> adding[c].new_number]}
              /\ adding' = [adding EXCEPT ![c].pc = "done",
                                          ![c].highest = MaxNumber(adding[c].builderid),
                                          ![c].id = Cardinality(builds) + 1,
                                          ![c].number = adding[c].new_number]
    /\ UNCHANGED <<storeVars, passVars, ghostVars, oracleVars, buildrequest, mergeVars,
                   changesourceVars, reporterVars>>

\* ------------------------------------------- reporters.utils: previous build
BuildNumbers == 0..MaxBuildNumber

\* data.get(("builders", builderid, "builds", n)) found nothing: None.
NoBuild == [builderid |-> 0, number |-> 0 - 1, results |-> None]

\* data.get(("builders", builderid, "builds", n))
GetBuild(builderid, n) ==
    IF \E b \in data_builds : b.builderid = builderid /\ b.number = n
      THEN CHOOSE b \in data_builds : b.builderid = builderid /\ b.number = n
      ELSE NoBuild

\* No getPreviousBuild call has been made.
NotCalled == [pc |-> "idle", build |-> NoBuild, n |-> 0, lookups |-> 0, prev |-> NoBuild]

AnyBuildFound(prev) == prev # NoBuild

\* Line 42: if prev and prev['results'] != RETRY
PreviousFound(prev) == prev # NoBuild /\ prev.results # RETRY

\* Line 38: n = build['number'] - 1
FirstCandidate(build) == build.number - 1

\* getPreviousBuild(master, build) is called.
getPreviousBuild(build) ==
    /\ previous.pc = "idle"
    /\ previous' = [NotCalled EXCEPT !.pc = "loop", !.build = build,
                                      !.n = FirstCandidate(build)]
    /\ UNCHANGED <<storeVars, passVars, ghostVars, oracleVars, buildrequest, mergeVars,
                   changesourceVars, buildsVars, data_builds>>

\* Lines 39-44: one round of the loop, which returns the build it found or
\* goes on with the number below.
PreviousLookup ==
    /\ previous.pc = "loop"
    /\ previous.n >= 0
    /\ LET prev == GetBuild(previous.build.builderid, previous.n)
       IN  previous' =
              IF PreviousFound(prev)
                THEN [previous EXCEPT !.pc = "returned", !.prev = prev,
                                      !.lookups = @ + 1]
                ELSE [previous EXCEPT !.n = @ - 1, !.lookups = @ + 1]
    /\ UNCHANGED <<storeVars, passVars, ghostVars, oracleVars, buildrequest, mergeVars,
                   changesourceVars, buildsVars, data_builds>>

\* Lines 39 and 45: the loop ends below number 0 and None is returned.
PreviousExhausted ==
    /\ previous.pc = "loop"
    /\ previous.n < 0
    /\ previous' = [previous EXCEPT !.pc = "returned", !.prev = NoBuild]
    /\ UNCHANGED <<storeVars, passVars, ghostVars, oracleVars, buildrequest, mergeVars,
                   changesourceVars, buildsVars, data_builds>>

\* ------------------------------------------------------------------- Init
\* Labels are assigned in order of first use: request 1 has label 1, and a
\* request uses a label already used or the next one.
InOrderOfFirstUse(f) ==
    /\ f[1] = 1
    /\ \A r \in Requests \ {1} : \E q \in 1..(r - 1) : f[r] <= f[q] + 1

\* All requests submitted at the same time; or newer ids with earlier times,
\* so that the sort of line 54 reorders the store's rows.
SameTime == [r \in Requests |-> 1]
NewestFirst == [r \in Requests |-> NumReq + 1 - r]

Catalog == {BaseBuildset("aaa", {}), BaseBuildset("bbb", {})}

RequestTables(builderChoices, timelines) ==
    {[r \in Requests |-> [buildrequestid |-> r, buildsetid |-> bs[r],
                          builderid |-> bd[r], submitted_at |-> t[r]]] :
        bs \in {f \in [Requests -> Buildsets] : InOrderOfFirstUse(f)},
        bd \in builderChoices,
        t \in timelines}

DefaultBuilder == [registered |-> TRUE, collapseRequestsFn |-> "default"]

\* Buildset 1 and the buildsets no request belongs to have the base content.
InitBuildsets ==
    /\ buildsets \in [Buildsets -> Catalog]
    /\ \A b \in Buildsets :
         (b = 1 \/ \A r \in Requests : buildrequests[r].buildsetid # b)
            => buildsets[b] = BaseBuildset("aaa", {})

\* Every request is unclaimed and incomplete.
InitClaims ==
    /\ claimedby = [r \in Requests |-> NoOne]
    /\ complete = [r \in Requests |-> FALSE]
    /\ results = [r \in Requests |-> None]
    /\ wins = [r \in Requests |-> {}]
    /\ complete_calls = [r \in Requests |-> 0]
    /\ claim_calls = [p \in Passes |-> [r \in Requests |-> 0]]

InitPasses ==
    /\ pc = [p \in Passes |-> "idle"]
    /\ brids = [p \in Passes |-> <<>>]
    /\ idx = [p \in Passes |-> 0]
    /\ brids_to_collapse = [p \in Passes |-> {}]
    /\ attempted = [p \in Passes |-> {}]
    /\ brid = [p \in Passes |-> 0]
    /\ collapsed_brids = [p \in Passes |-> <<>>]
    /\ run = [p \in Passes |-> 1]
    /\ first_collapsed = [p \in Passes |-> <<>>]
    /\ won = [p \in Passes |-> {}]
    /\ lost = [p \in Passes |-> {}]
    /\ completed_by = [p \in Passes |-> {}]

\* No evaluation has been made.
NoBr == [buildrequestid |-> 0, buildsetid |-> 0, builderid |-> 0, submitted_at |-> 0]

InitOracleVars ==
    /\ new_br = NoBr
    /\ old_br = NoBr
    /\ canCollapse = [result |-> FALSE, reads |-> {}]
    /\ edits = 0

\* No view was assembled, no merge helper was called, and no changesource is
\* linked.
InitMergeVars ==
    /\ merge_reqs = <<>>
    /\ merged_reasons = <<>>
    /\ merged_sources = <<>>
    /\ calls = {}

InitChangesourceVars ==
    /\ masters = [m \in Masters |-> [active |-> TRUE]]
    /\ changesource_masters = {}
    /\ cs_call = NoCall

InitBuildsVars ==
    /\ builds = {}
    /\ adding = [c \in Callers |-> NotAdding]

InitReporterVars ==
    /\ data_builds = {}
    /\ previous = NotCalled

InitOther ==
    /\ buildrequest = NotMade
    /\ InitMergeVars
    /\ InitChangesourceVars
    /\ InitBuildsVars
    /\ InitReporterVars

\* --------------------------------------------------------------------------
\* Spec: collapse passes racing with each other and with workers. All
\* requests are for one builder with the default collapse function and were
\* submitted at the same time.
Init ==
    /\ buildrequests \in RequestTables({[r \in Requests |-> 1]}, {SameTime})
    /\ InitBuildsets
    /\ builders = [b \in BuilderIds |-> DefaultBuilder]
    /\ InitClaims
    /\ InitPasses
    /\ InitOracleVars
    /\ InitOther

Next ==
    \/ \E p \in Passes : StartPass(p)
    \/ \E p \in Passes : ProcessBrid(p)
    \/ \E p \in Passes : ClaimStep(p)
    \/ \E p \in Passes : CompleteStep(p)
    \/ \E r \in Requests : WorkerClaim(r)

Spec == Init /\ [][Next]_vars

\* --------------------------------------------------------------------------
\* SpecStop: the same passes, each of which may stop at any suspension point.
NextStop ==
    \/ \E p \in Passes : StartPass(p)
    \/ \E p \in Passes : ProcessBrid(p)
    \/ \E p \in Passes : ClaimStep(p)
    \/ \E p \in Passes : CompleteStep(p)
    \/ \E p \in Passes : Abort(p)
    \/ \E p \in Passes : StoreFail(p)

SpecStop == Init /\ [][NextStop]_vars

\* --------------------------------------------------------------------------
\* SpecSolo: one collapser and no other actor. Requests are spread over the
\* builders, a builder may be unregistered or have no collapse function, some
\* requests were claimed by workers before the pass, and collapse() may be
\* called again on the same batch once it has returned.
BuilderConfigs ==
    {DefaultBuilder,
     [registered |-> TRUE, collapseRequestsFn |-> None],
     [registered |-> FALSE, collapseRequestsFn |-> None]}

InitSolo ==
    /\ buildrequests \in
          RequestTables({f \in [Requests -> BuilderIds] : InOrderOfFirstUse(f)},
                        {SameTime, NewestFirst})
    /\ InitBuildsets
    /\ builders \in [BuilderIds -> BuilderConfigs]
    /\ \A b \in BuilderIds :
         (\A r \in Requests : buildrequests[r].builderid # b) => builders[b] = DefaultBuilder
    /\ claimedby \in [Requests -> {NoOne, Worker}]
    /\ wins = [r \in Requests |-> IF claimedby[r] = Worker THEN {Worker} ELSE {}]
    /\ complete = [r \in Requests |-> FALSE]
    /\ results = [r \in Requests |-> None]
    /\ complete_calls = [r \in Requests |-> 0]
    /\ claim_calls = [p \in Passes |-> [r \in Requests |-> 0]]
    /\ InitPasses
    /\ InitOracleVars
    /\ InitOther

NextSolo ==
    \/ StartPass(1)
    \/ ProcessBrid(1)
    \/ ClaimStep(1)
    \/ CompleteStep(1)
    \/ Rerun(1)

SpecSolo == InitSolo /\ [][NextSolo]_vars

\* --------------------------------------------------------------------------
\* SpecCustom: one pass and workers on requests of builders that all have
\* the same collapse function, the default or a custom one.
InitCustom ==
    /\ buildrequests \in RequestTables({[r \in Requests |-> 1]}, {SameTime})
    /\ InitBuildsets
    /\ \E fn \in {"default"} \cup DOMAIN CustomCollapseFns :
          builders = [b \in BuilderIds |-> [registered |-> TRUE, collapseRequestsFn |-> fn]]
    /\ InitClaims
    /\ InitPasses
    /\ InitOracleVars
    /\ InitOther

NextCustom ==
    \/ StartPass(1)
    \/ ProcessBrid(1)
    \/ ClaimStep(1)
    \/ CompleteStep(1)
    \/ \E r \in Requests : WorkerClaim(r)

SpecCustom == InitCustom /\ [][NextCustom]_vars

\* --------------------------------------------------------------------------
\* SpecOracle: the default oracle as a function of the store. The buildsets
\* start out with the same content; up to MaxEdits writes make them differ;
\* then canBeCollapsed is evaluated on request rows drawn from all ids and
\* buildsets.
Evaluated == new_br # NoBr

\* One field of one sourcestamp of a buildset is different.
EditSourcestamp(b, k, f, v) ==
    /\ ~Evaluated
    /\ edits < MaxEdits
    /\ buildsets[b].sourcestamps[k][f] # v
    /\ buildsets' = [buildsets EXCEPT ![b].sourcestamps[k][f] = v]
    /\ edits' = edits + 1
    /\ UNCHANGED <<buildrequests, builders, claimedby, complete, results, passVars,
                   ghostVars, new_br, old_br, canCollapse, otherVars>>

\* A buildset has a sourcestamp for one more codebase.
AddSourcestamp(b, c) ==
    /\ ~Evaluated
    /\ edits < MaxEdits
    /\ \A k \in DOMAIN buildsets[b].sourcestamps : buildsets[b].sourcestamps[k].codebase # c
    /\ buildsets' = [buildsets EXCEPT ![b].sourcestamps = Append(@, BaseSS(c, "aaa", {}))]
    /\ edits' = edits + 1
    /\ UNCHANGED <<buildrequests, builders, claimedby, complete, results, passVars,
                   ghostVars, new_br, old_br, canCollapse, otherVars>>

\* A buildset has a property set to another (value, source).
SetProperty(b, n, v, src) ==
    /\ ~Evaluated
    /\ edits < MaxEdits
    /\ n \in DOMAIN buildsets[b].properties => buildsets[b].properties[n] # <<v, src>>
    /\ buildsets' = [buildsets EXCEPT ![b].properties =
                        [m \in DOMAIN @ \cup {n} |-> IF m = n THEN <<v, src>> ELSE @[m]]]
    /\ edits' = edits + 1
    /\ UNCHANGED <<buildrequests, builders, claimedby, complete, results, passVars,
                   ghostVars, new_br, old_br, canCollapse, otherVars>>

\* A buildset lacks a property.
DelProperty(b, n) ==
    /\ ~Evaluated
    /\ edits < MaxEdits
    /\ n \in DOMAIN buildsets[b].properties
    /\ buildsets' = [buildsets EXCEPT ![b].properties = [m \in DOMAIN @ \ {n} |-> @[m]]]
    /\ edits' = edits + 1
    /\ UNCHANGED <<buildrequests, builders, claimedby, complete, results, passVars,
                   ghostVars, new_br, old_br, canCollapse, otherVars>>

\* Request rows: a request belongs to one buildset.
BrDicts ==
    [buildrequestid : Requests, buildsetid : Buildsets, builderid : {1}, submitted_at : {1}]

EvaluateAndClaim(new, old) ==
    /\ ~Evaluated
    /\ new.buildrequestid = old.buildrequestid => new.buildsetid = old.buildsetid
    /\ new_br' = new
    /\ old_br' = old
    /\ canCollapse' = canBeCollapsed(new, old)
    /\ claimedby' = IF canBeCollapsed(new, old).result
                      THEN [claimedby EXCEPT ![old.buildrequestid] = Pass(1)]
                      ELSE claimedby
    /\ UNCHANGED <<buildrequests, buildsets, builders, complete, results, passVars,
                   ghostVars, edits, otherVars>>

\* canBeCollapsed(master, new, old) is awaited.
Evaluate(new, old) ==
    /\ ~Evaluated
    /\ new.buildrequestid = old.buildrequestid => new.buildsetid = old.buildsetid
    /\ new_br' = new
    /\ old_br' = old
    /\ canCollapse' = canBeCollapsed(new, old)
    /\ UNCHANGED <<storeVars, passVars, ghostVars, edits, otherVars>>

InitOracle ==
    /\ buildrequests \in RequestTables({[r \in Requests |-> 1]}, {SameTime})
    /\ \A r \in Requests : buildrequests[r].buildsetid = r
    /\ \E base \in {BaseBuildset("aaa", {}), BaseBuildset("aaa", {1})} :
          buildsets = [b \in Buildsets |-> base]
    /\ builders = [b \in BuilderIds |-> DefaultBuilder]
    /\ InitClaims
    /\ InitPasses
    /\ InitOracleVars
    /\ InitOther

NextOracle ==
    \/ \E b \in Buildsets : \E k \in DOMAIN buildsets[b].sourcestamps :
          \E f \in SSField : \E v \in FieldValues(f) : EditSourcestamp(b, k, f, v)
    \/ \E b \in Buildsets, c \in Codebases : AddSourcestamp(b, c)
    \/ \E b \in Buildsets, n \in PropNames, v \in PropValues, src \in PropSources :
          SetProperty(b, n, v, src)
    \/ \E b \in Buildsets, n \in PropNames : DelProperty(b, n)
    \/ \E new, old \in BrDicts : Evaluate(new, old)

SpecOracle == InitOracle /\ [][NextOracle]_vars

\* --------------------------------------------------------------------------
\* SpecView: _make_br on the rows of a store in which a request may name a
\* buildset that does not exist (buildset id 0) and a buildset may have no
\* sourcestamp.
ViewCatalog ==
    {BaseBuildset("aaa", {}),
     [BaseBuildset("aaa", {}) EXCEPT !.reason = <<>>],
     [BaseBuildset("aaa", {1}) EXCEPT
         !.sourcestamps = <<BaseSS("cb1", "aaa", {1}), BaseSS("cb2", "bbb", {}),
                            BaseSS("cb1", "bbb", {2})>>],
     [BaseBuildset("aaa", {}) EXCEPT !.sourcestamps = <<>>]}

InitView ==
    /\ \E bs \in [Requests -> {0} \cup Buildsets] :
          buildrequests = [r \in Requests |->
              [buildrequestid |-> r, buildsetid |-> bs[r], builderid |-> 1,
               submitted_at |-> 1]]
    /\ buildsets \in [Buildsets -> ViewCatalog]
    /\ builders = [b \in BuilderIds |-> DefaultBuilder]
    /\ InitClaims
    /\ InitPasses
    /\ InitOracleVars
    /\ buildrequest = NotMade
    /\ InitMergeVars
    /\ InitChangesourceVars
    /\ InitBuildsVars
    /\ InitReporterVars

NextView == \E r \in Requests : MakeBr(r)

SpecView == InitView /\ [][NextView]_vars

\* --------------------------------------------------------------------------
\* SpecMerge: the merge helpers on a primary request and up to MaxOthers
\* others, each with any reason and with a sourcestamp of its own for any
\* subset of the codebases.
InitMerge ==
    /\ buildrequests \in RequestTables({[r \in Requests |-> 1]}, {SameTime})
    /\ \A r \in Requests : buildrequests[r].buildsetid = r
    /\ buildsets = [b \in Buildsets |-> BaseBuildset("aaa", {})]
    /\ builders = [b \in BuilderIds |-> DefaultBuilder]
    /\ InitClaims
    /\ InitPasses
    /\ InitOracleVars
    /\ buildrequest = NotMade
    /\ \E n \in 1..(1 + MaxOthers) :
          \E rs \in [1..n -> Reasons], cbs \in [1..n -> SUBSET Codebases] :
              merge_reqs = [k \in 1..n |->
                  [reason |-> rs[k],
                   sources |-> [c \in cbs[k] |-> SourceStampOf(k, c)]]]
    /\ merged_reasons = <<>>
    /\ merged_sources = <<>>
    /\ calls = {}
    /\ InitChangesourceVars
    /\ InitBuildsVars
    /\ InitReporterVars

NextMerge ==
    \/ MergeReasons
    \/ \E order \in Orders(AllCodebases(Head(merge_reqs), Tail(merge_reqs))) :
          MergeSourceStampsWith(order)

SpecMerge == InitMerge /\ [][NextMerge]_vars

\* --------------------------------------------------------------------------
\* SpecChangesources: setChangeSourceMaster calls on a link table that starts
\* with at most one row per changesource, for masters active or not.
InitChangesources ==
    /\ buildrequests \in RequestTables({[r \in Requests |-> 1]}, {SameTime})
    /\ \A r \in Requests : buildrequests[r].buildsetid = r
    /\ buildsets = [b \in Buildsets |-> BaseBuildset("aaa", {})]
    /\ builders = [b \in BuilderIds |-> DefaultBuilder]
    /\ InitClaims
    /\ InitPasses
    /\ InitOracleVars
    /\ buildrequest = NotMade
    /\ InitMergeVars
    /\ masters \in [Masters -> [active : BOOLEAN]]
    /\ \E link \in [ChangeSources -> {NoMaster} \cup Masters] :
          changesource_masters =
              {<<cs, link[cs]>> : cs \in {cs \in ChangeSources : link[cs] # NoMaster}}
    /\ cs_call = NoCall
    /\ InitBuildsVars
    /\ InitReporterVars

NextChangesources ==
    \E cs \in ChangeSources, m \in {NoMaster} \cup Masters : setChangeSourceMaster(cs, m)

SpecChangesources == InitChangesources /\ [][NextChangesources]_vars

\* --------------------------------------------------------------------------
\* SpecBuilds: concurrent addBuild calls on a builds table that starts with
\* any numbers up to MaxInitialNumber per builder.
InitBuilds ==
    /\ buildrequests \in RequestTables({[r \in Requests |-> 1]}, {SameTime})
    /\ \A r \in Requests : buildrequests[r].buildsetid = r
    /\ buildsets = [b \in Buildsets |-> BaseBuildset("aaa", {})]
    /\ builders = [b \in BuilderIds |-> DefaultBuilder]
    /\ InitClaims
    /\ InitPasses
    /\ InitOracleVars
    /\ buildrequest = NotMade
    /\ InitMergeVars
    /\ InitChangesourceVars
    /\ \E numbers \in [BuilderIds -> SUBSET (1..MaxInitialNumber)] :
          LET rows == {<<b, n>> \in BuilderIds \X (1..MaxInitialNumber) : n \in numbers[b]}
              \* ids in the order builder, number
              before(row) == {x \in rows : x[1] < row[1] \/ (x[1] = row[1] /\ x[2] < row[2])}
          IN  builds = {[id |-> Cardinality(before(row)) + 1, builderid |-> row[1],
                         number |-> row[2]] : row \in rows}
    /\ adding = [c \in Callers |-> NotAdding]
    /\ InitReporterVars

NextBuilds ==
    \/ \E c \in Callers, b \in BuilderIds : AddBuildRead(c, b)
    \/ \E c \in Callers : AddBuildInsert(c)

SpecBuilds == InitBuilds /\ [][NextBuilds]_vars

\* --------------------------------------------------------------------------
\* SpecPrevious: getPreviousBuild for any build on a builds table in which
\* every number up to MaxBuildNumber of every builder is absent, finished or
\* to be retried.
BuildTables ==
    {{[builderid |-> cell[1], number |-> cell[2], results |-> table[cell]] :
         cell \in {cell \in BuilderIds \X BuildNumbers : table[cell] # None}} :
      table \in [BuilderIds \X BuildNumbers -> {None, SUCCESS, RETRY}]}

InitPrevious ==
    /\ buildrequests \in RequestTables({[r \in Requests |-> 1]}, {SameTime})
    /\ \A r \in Requests : buildrequests[r].buildsetid = r
    /\ buildsets = [b \in Buildsets |-> BaseBuildset("aaa", {})]
    /\ builders = [b \in BuilderIds |-> DefaultBuilder]
    /\ InitClaims
    /\ InitPasses
    /\ InitOracleVars
    /\ buildrequest = NotMade
    /\ InitMergeVars
    /\ InitChangesourceVars
    /\ InitBuildsVars
    /\ data_builds \in BuildTables
    /\ previous = NotCalled

NextPrevious ==
    \/ \E build \in [builderid : BuilderIds, number : BuildNumbers, results : {SUCCESS}] :
          getPreviousBuild(build)
    \/ PreviousLookup
    \/ PreviousExhausted

SpecPrevious == InitPrevious /\ [][NextPrevious]_vars

\* ------------------------------------------------------------------ claims
collapsed(p) == Range(collapsed_brids[p])

\* C1: whatever the interleaving of collapse passes and worker claims, at most
\* one actor's claim on a request succeeds, and no request is both completed
\* as SKIPPED by a collapse pass and claimed by a worker for execution.
C1_NoDoubleClaim ==
    \A r \in Requests :
        /\ Cardinality(wins[r]) <= 1
        /\ Worker \in wins[r] =>
              /\ complete_calls[r] = 0
              /\ results[r] # SKIPPED
              /\ \A p \in Passes : r \notin collapsed(p) \cup completed_by[p]

\* A pass proposed a request that a worker claimed before the pass's claim.
C1_Witness ==
    \E p \in Passes, r \in Requests :
        r \in lost[p] /\ claimedby[r] = Worker /\ pc[p] = "done"

\* C2: across concurrent passes each request id is returned as collapsed by at
\* most one pass, and completeBuildRequests(.., SKIPPED) is issued for it at
\* most once in total.
C2_CollapsedAtMostOnce ==
    /\ \A r \in Requests : complete_calls[r] <= 1
    /\ \A p, q \in Passes : p # q => collapsed(p) \cap collapsed(q) = {}
    /\ \A p \in Passes : Cardinality(collapsed(p)) = Len(collapsed_brids[p])

\* Two passes proposed the same victim, one collapsed it and the other has
\* made its attempt.
C2_Witness ==
    \E p, q \in Passes, r \in Requests :
        /\ p # q
        /\ r \in brids_to_collapse[p] \cap brids_to_collapse[q]
        /\ r \in collapsed(p)
        /\ r \in attempted[q]

\* C3: a pass that stopped at a suspension point (process restart or store
\* failure) holds no claim on a request it did not also complete as SKIPPED:
\* every request it had not marked SKIPPED is left unclaimed.
C3_StoppedPassLeavesUnclaimed ==
    \A p \in Passes : pc[p] \in {"aborted", "raised"} =>
        \A r \in Requests : claimedby[r] = Pass(p) =>
            complete[r] /\ results[r] = SKIPPED

\* A pass that returned had `new` in its batch and collapsed `victim`, which
\* the default oracle accepts for `new`.
CollapsedOnAccountOf(new, victim) ==
    \E p \in Passes :
        /\ pc[p] = "done"
        /\ new \in Range(brids[p])
        /\ victim \in collapsed(p)
        /\ canBeCollapsed(buildrequests[new], buildrequests[victim]).result

\* C4: two requests of one builder, submitted at the same time and each
\* processed as a new request by a pass that returned, are never both marked
\* SKIPPED with each one collapsed on the other's account.
C4_NoMutualCollapse ==
    \A a, b \in Requests :
        (/\ a # b
         /\ buildrequests[a].builderid = buildrequests[b].builderid
         /\ buildrequests[a].submitted_at = buildrequests[b].submitted_at
         /\ CollapsedOnAccountOf(a, b)
         /\ CollapsedOnAccountOf(b, a))
        => ~(results[a] = SKIPPED /\ results[b] = SKIPPED)

\* C5: a pass whose claim on a proposed victim fails does not complete the
\* request, does not hold its claim, does not return its id, and goes on with
\* the loop instead of raising.
C5_LostRaceLeftUntouched ==
    \A p \in Passes : \A r \in lost[p] :
        /\ r \notin completed_by[p]
        /\ r \notin collapsed(p)
        /\ claimedby[r] # Pass(p)
        /\ pc[p] \in {"claim", "complete", "done"}
        /\ brid[p] # r

\* A pass lost a claim and returned.
C5_Witness ==
    \E p \in Passes : \E r \in lost[p] : pc[p] = "done" /\ claimedby[r] # NoOne

\* C6: completeBuildRequests is only called for ids this pass claimed, and the
\* returned list holds exactly the ids this pass claimed and then marked
\* complete with result SKIPPED.
C6_ReturnedIffClaimedAndSkipped ==
    \A p \in Passes :
        /\ completed_by[p] \subseteq won[p]
        /\ collapsed(p) = completed_by[p]
        /\ pc[p] = "done" =>
              /\ collapsed(p) = won[p]
              /\ \A r \in Requests :
                    r \in collapsed(p) <=>
                        /\ claimedby[r] = Pass(p)
                        /\ complete[r]
                        /\ results[r] = SKIPPED

\* A pass returned after winning one claim and losing another.
C6_Witness ==
    \E p \in Passes : pc[p] = "done" /\ won[p] # {} /\ lost[p] # {}

\* The (name, value) pairs of a buildset's properties whose source is
\* "Scheduler".
SchedulerProps(bs) ==
    {<<n, bs.properties[n][1]>> : n \in
        {n \in DOMAIN bs.properties : bs.properties[n][2] = "Scheduler"}}

\* Buildset contents with the same codebases and, per codebase, the same
\* repository, branch, project and revision, no patches and no changes, and
\* with identical Scheduler-sourced properties.
ContentAccepted(a, b) ==
    /\ {a.sourcestamps[i].codebase : i \in DOMAIN a.sourcestamps}
          = {b.sourcestamps[j].codebase : j \in DOMAIN b.sourcestamps}
    /\ \A i \in DOMAIN a.sourcestamps, j \in DOMAIN b.sourcestamps :
          a.sourcestamps[i].codebase = b.sourcestamps[j].codebase =>
              /\ a.sourcestamps[i].repository = b.sourcestamps[j].repository
              /\ a.sourcestamps[i].branch = b.sourcestamps[j].branch
              /\ a.sourcestamps[i].project = b.sourcestamps[j].project
              /\ a.sourcestamps[i].patch = None /\ b.sourcestamps[j].patch = None
              /\ a.sourcestamps[i].changes = {} /\ b.sourcestamps[j].changes = {}
              /\ a.sourcestamps[i].revision = b.sourcestamps[j].revision
    /\ SchedulerProps(a) = SchedulerProps(b)

\* collapse([new]) has returned; old < new were unclaimed, are of one builder
\* with the default collapse function and of different buildsets with
\* accepted content.
C7_Scenario(new, old) ==
    /\ pc[1] = "done" /\ run[1] = 1 /\ brids[1] = <<new>>
    /\ old < new
    /\ buildrequests[old].builderid = buildrequests[new].builderid
    /\ builders[buildrequests[new].builderid] = DefaultBuilder
    /\ buildrequests[old].buildsetid # buildrequests[new].buildsetid
    /\ ContentAccepted(buildsets[buildrequests[new].buildsetid],
                       buildsets[buildrequests[old].buildsetid])
    /\ Worker \notin wins[old] \cup wins[new]

\* C7: with no other actor, collapse([new]) for unclaimed requests old < new of
\* one builder, in different buildsets whose content the default oracle
\* accepts, claims old and completes it as SKIPPED, returns exactly [old] when
\* the two are the builder's only unclaimed requests, and leaves new
\* unclaimed and incomplete.
C7_EquivalentOldIsCollapsed ==
    \A new, old \in Requests : C7_Scenario(new, old) =>
        /\ old \in collapsed(1)
        /\ claimedby[old] = Pass(1) /\ complete[old] /\ results[old] = SKIPPED
        /\ claimedby[new] = NoOne /\ ~complete[new] /\ results[new] = None
        /\ {r \in Requests : /\ buildrequests[r].builderid = buildrequests[new].builderid
                             /\ Worker \notin wins[r]} = {old, new}
              => collapsed_brids[1] = <<old>>

\* The scenario with old and new the only unclaimed requests of the builder.
C7_Witness ==
    \E new, old \in Requests :
        /\ C7_Scenario(new, old)
        /\ collapsed_brids[1] = <<old>>
        /\ \E r \in Requests : r \notin {old, new}

\* C8: a second collapse() on the same batch, with no other actor in between,
\* makes no successful claim and returns the empty list.
C8_SecondRunCollapsesNothing ==
    run[1] >= 2 => won[1] = {} /\ completed_by[1] = {} /\ collapsed_brids[1] = <<>>

\* The first call collapsed something and the second call has returned.
C8_Witness ==
    run[1] = 2 /\ pc[1] = "done" /\ first_collapsed[1] # <<>> /\ lost[1] = {}

\* C9: for requests A, B with A.id < B.id that are otherwise equivalent (their
\* buildsets have the same content), canCollapse(A, B), A the new request and
\* B the old one, is false.
C9_OlderNeverSubsumesNewer ==
    (/\ Evaluated
     /\ new_br.buildrequestid < old_br.buildrequestid
     /\ buildsets[new_br.buildsetid] = buildsets[old_br.buildsetid])
    => ~canCollapse.result

SourcesOf(bsid) == SourcesByCodebase(buildsets[bsid].sourcestamps)

\* Some codebase both requests have carries a patch on either side.
SharedCodebasePatched(new, old) ==
    \E c \in DOMAIN SourcesOf(new.buildsetid) \cap DOMAIN SourcesOf(old.buildsetid) :
        \/ SourcesOf(new.buildsetid)[c].patch # None
        \/ SourcesOf(old.buildsetid)[c].patch # None

DifferOnlyInIgnoredProps(a, b) ==
    \A n \in DOMAIN a.properties \cup DOMAIN b.properties :
        (\/ n \notin DOMAIN a.properties \cap DOMAIN b.properties
         \/ a.properties[n] # b.properties[n])
        => \/ n = "scheduler"
           \/ /\ n \in DOMAIN a.properties => a.properties[n][2] # "Scheduler"
              /\ n \in DOMAIN b.properties => b.properties[n][2] # "Scheduler"

\* C12: buildsets whose properties differ only in properties that are not
\* Scheduler-sourced, or only in the property named scheduler, have equal
\* filtered property mappings, and an evaluation that reaches the property
\* comparison for them returns true.
C12_IgnoredPropsDoNotMatter ==
    (/\ Evaluated
     /\ DifferOnlyInIgnoredProps(buildsets[new_br.buildsetid], buildsets[old_br.buildsetid]))
    => /\ filter_buildset_props_for_collapsing(buildsets[new_br.buildsetid].properties)
            = filter_buildset_props_for_collapsing(buildsets[old_br.buildsetid].properties)
       /\ "properties" \in canCollapse.reads => canCollapse.result

\* The property comparison was reached for buildsets of which only one has a
\* Scheduler-sourced property named scheduler.
C12_Witness ==
    /\ Evaluated
    /\ "properties" \in canCollapse.reads
    /\ "scheduler" \in DOMAIN buildsets[new_br.buildsetid].properties
    /\ buildsets[new_br.buildsetid].properties["scheduler"][2] = "Scheduler"
    /\ "scheduler" \notin DOMAIN buildsets[old_br.buildsetid].properties
    /\ DifferOnlyInIgnoredProps(buildsets[new_br.buildsetid], buildsets[old_br.buildsetid])
    /\ canCollapse.result

\* C13: for requests in different buildsets, if for some codebase exactly one
\* of the two sourcestamps has changes, canCollapse is false whatever the
\* revisions are.
C13_ChangesOnOneSideOnly ==
    (/\ Evaluated
     /\ new_br.buildsetid # old_br.buildsetid
     /\ \E c \in DOMAIN SourcesOf(new_br.buildsetid) \cap DOMAIN SourcesOf(old_br.buildsetid) :
           (SourcesOf(new_br.buildsetid)[c].changes = {})
              # (SourcesOf(old_br.buildsetid)[c].changes = {}))
    => ~canCollapse.result

\* Only the old request's sourcestamp has changes, the revisions are equal and
\* the changes were read.
C13_Witness ==
    /\ Evaluated
    /\ new_br.buildsetid # old_br.buildsetid
    /\ new_br.buildrequestid > old_br.buildrequestid
    /\ "changes" \in canCollapse.reads
    /\ \E c \in DOMAIN SourcesOf(new_br.buildsetid) \cap DOMAIN SourcesOf(old_br.buildsetid) :
          /\ SourcesOf(new_br.buildsetid)[c].changes = {}
          /\ SourcesOf(old_br.buildsetid)[c].changes # {}
          /\ SourcesOf(new_br.buildsetid)[c].revision = SourcesOf(old_br.buildsetid)[c].revision
    /\ ~canCollapse.result

\* Lines 64-76 skip the new request: its builder is not registered, has no
\* collapse function, or has no unclaimed request.
NotCollapsing(new_brid) ==
    \/ ~builders[buildrequests[new_brid].builderid].registered
    \/ builders[buildrequests[new_brid].builderid].collapseRequestsFn = None
    \/ UnclaimedOf(buildrequests[new_brid].builderid) = {}

\* C14: processing a new request whose builder is not registered, has a null
\* collapse function or has no unclaimed candidates adds nothing to the
\* proposed victims and raises nothing: the pass goes on with the next id of
\* the batch, or with the claim loop after the last one.
C14_SkippedRequestProposesNothing ==
    [][(pc[1] = "eval" /\ NotCollapsing(brids[1][idx[1]]))
        => /\ brids_to_collapse'[1] = brids_to_collapse[1]
           /\ IF idx[1] < Len(brids[1])
                THEN pc'[1] = "eval" /\ idx'[1] = idx[1] + 1
                ELSE pc'[1] = AfterClaimLoop(brids_to_collapse[1], {})]_vars

\* A batch whose first request is of an unregistered builder and whose second
\* request had a victim collapsed.
C14_Witness ==
    /\ pc[1] = "done" /\ run[1] = 1
    /\ Len(brids[1]) = 2
    /\ ~builders[buildrequests[brids[1][1]].builderid].registered
    /\ collapsed_brids[1] # <<>>

\* C15: a store call that fails ends the collapse call with the failure: the
\* call is not resumed, it returns no list (a list is returned only once both
\* loops have run to their end), the failing step writes nothing, and every
\* request claimed and completed as SKIPPED before stays so.
C15_FailurePropagatesNoRollback ==
    [][\A p \in Passes :
          /\ (pc[p] # "raised" /\ pc'[p] = "raised") =>
                /\ collapsed_brids'[p] = <<>>
                /\ claimedby' = claimedby /\ complete' = complete /\ results' = results
          /\ pc[p] = "raised" => pc'[p] = "raised"
          /\ (pc[p] # "done" /\ pc'[p] = "done") =>
                /\ idx[p] = Len(brids[p])
                /\ attempted'[p] = brids_to_collapse'[p]
          /\ \A r \in Requests :
                (complete[r] /\ results[r] = SKIPPED) =>
                    /\ complete'[r] /\ results'[r] = SKIPPED
                    /\ claimedby'[r] = claimedby[r]]_vars

\* A pass failed after it had claimed and completed a request, which is still
\* claimed by it and SKIPPED.
C15_Witness ==
    \E p \in Passes, r \in Requests :
        /\ pc[p] = "raised"
        /\ claimedby[r] = Pass(p) /\ complete[r] /\ results[r] = SKIPPED

\* C16: the step that evaluates canCollapse(new, old) leaves the store as it
\* is: rows, buildsets, claims, completion and results.
C16_EvaluationWritesNothing ==
    [][(new_br = NoBr /\ new_br' # NoBr)
        => /\ claimedby' = claimedby /\ complete' = complete /\ results' = results
           /\ buildrequests' = buildrequests /\ buildsets' = buildsets]_vars

\* An evaluation of two unclaimed requests of different buildsets returned
\* true, and both are still unclaimed and incomplete.
C16_Witness ==
    /\ Evaluated
    /\ new_br.buildsetid # old_br.buildsetid
    /\ canCollapse.result
    /\ claimedby[old_br.buildrequestid] = NoOne /\ ~complete[old_br.buildrequestid]
    /\ claimedby[new_br.buildrequestid] = NoOne /\ ~complete[new_br.buildrequestid]

\* The positions in [self, *others] whose reason is non-empty and occurs at
\* no earlier position.
FirstOccurrences ==
    {k \in DOMAIN merge_reqs :
        /\ merge_reqs[k].reason # NoText /\ merge_reqs[k].reason # <<>>
        /\ \A j \in 1..(k - 1) : merge_reqs[j].reason # merge_reqs[k].reason}

\* The length of the reasons at the positions S, each followed by ", ".
RECURSIVE LengthWithSeparators(_)
LengthWithSeparators(S) ==
    IF S = {} THEN 0
    ELSE LET k == CHOOSE k \in S : TRUE
         IN  Len(merge_reqs[k].reason) + 2 + LengthWithSeparators(S \ {k})

\* C17: mergeReasons returns the reasons at the first occurrences, in the
\* order primary then others, each followed by ", " except the last; empty and
\* missing reasons and repetitions contribute nothing.
C17_MergedReasons ==
    "mergeReasons" \in calls =>
        /\ Len(merged_reasons) =
              IF FirstOccurrences = {} THEN 0
              ELSE LengthWithSeparators(FirstOccurrences) - 2
        /\ \A k \in FirstOccurrences :
              LET from == LengthWithSeparators({j \in FirstOccurrences : j < k})
                  to == from + Len(merge_reqs[k].reason)
              IN  /\ SubSeq(merged_reasons, from + 1, to) = merge_reqs[k].reason
                  /\ (\E j \in FirstOccurrences : j > k)
                        => SubSeq(merged_reasons, to + 1, to + 2) = <<",", " ">>

\* Three requests of which the second contributes nothing and the other two
\* contribute different reasons.
C17_Witness ==
    /\ "mergeReasons" \in calls
    /\ Len(merge_reqs) = 3
    /\ FirstOccurrences = {1, 3}
    /\ merged_reasons = merge_reqs[1].reason \o <<",", " ">> \o merge_reqs[3].reason

\* The codebases of the primary and of all others.
UnionOfCodebases == UNION {DOMAIN merge_reqs[k].sources : k \in DOMAIN merge_reqs}

\* The last position in [self, *others] that has the codebase.
LastWith(c) ==
    CHOOSE k \in DOMAIN merge_reqs :
        /\ c \in DOMAIN merge_reqs[k].sources
        /\ \A j \in DOMAIN merge_reqs : c \in DOMAIN merge_reqs[j].sources => j <= k

\* C18: mergeSourceStampsWith returns exactly one sourcestamp per codebase of
\* the union, the one of the last request, in the order primary then others,
\* that has the codebase.
C18_LastSourcestampPerCodebase ==
    "mergeSourceStampsWith" \in calls =>
        /\ Len(merged_sources) = Cardinality(UnionOfCodebases)
        /\ \A c \in UnionOfCodebases :
              \E i \in DOMAIN merged_sources :
                  merged_sources[i] = merge_reqs[LastWith(c)].sources[c]

\* The primary and the first other have a codebase the last other lacks; the
\* first other's sourcestamp is returned for it.
C18_Witness ==
    /\ "mergeSourceStampsWith" \in calls
    /\ Len(merge_reqs) = 3
    /\ \E c \in DOMAIN merge_reqs[1].sources \cap DOMAIN merge_reqs[2].sources :
          /\ c \notin DOMAIN merge_reqs[3].sources
          /\ merge_reqs[2].sources[c] \in Range(merged_sources)
          /\ merge_reqs[1].sources[c] \notin Range(merged_sources)
    /\ Len(merged_sources) = 2

\* C19: _make_br for a request whose buildset does not exist or has no
\* sourcestamp raises AssertionError and returns nothing.
C19_BrokenBuildsetFailsAssembly ==
    buildrequest.raised # "not called" =>
        ((\/ ~BuildsetExists(buildrequests[buildrequest.brid].buildsetid)
          \/ buildsets[buildrequests[buildrequest.brid].buildsetid].sourcestamps = <<>>)
         => /\ buildrequest.raised = "AssertionError"
            /\ buildrequest = Raised(buildrequest.brid, "AssertionError"))

\* The call was made for a request whose buildset exists and has a reason but
\* no sourcestamp, while another request names a buildset that does not exist.
C19_Witness ==
    /\ buildrequest.raised = "AssertionError"
    /\ BuildsetExists(buildrequests[buildrequest.brid].buildsetid)
    /\ buildsets[buildrequests[buildrequest.brid].buildsetid].sourcestamps = <<>>
    /\ buildsets[buildrequests[buildrequest.brid].buildsetid].reason # <<>>
    /\ \E r \in Requests : ~BuildsetExists(buildrequests[r].buildsetid)

C21_BuildNumbersUnique ==
    /\ \A a, b \in builds : (a.builderid = b.builderid /\ a.number = b.number) => a = b
    /\ \A a, b \in builds : a.id = b.id => a = b
    /\ \A c \in Callers : adding[c].pc = "done" =>
          /\ adding[c].number = adding[c].highest + 1
          /\ [id |-> adding[c].id, builderid |-> adding[c].builderid,
              number |-> adding[c].number] \in builds

\* A call returned a number higher than the one its read suggested: builds of
\* its builder were committed between its read and its insert.
C21_Witness ==
    \E c \in Callers :
        /\ adding[c].pc = "done"
        /\ adding[c].number >= adding[c].first_number + 2
        /\ adding[c].first_number > 1

\* C22: a pass makes no claim attempt before it has processed every new
\* request id of its batch: while it evaluates it has attempted nothing, and
\* once it claims the for loop over the batch is over.
C22_EvaluationPrecedesClaims ==
    \A p \in Passes :
        /\ pc[p] = "eval" =>
              /\ attempted[p] = {} /\ won[p] = {} /\ lost[p] = {}
              /\ \A r \in Requests : claim_calls[p][r] = 0 /\ Pass(p) \notin wins[r]
        /\ (pc[p] \in {"claim", "complete"} \/ attempted[p] # {}) =>
              idx[p] = Len(brids[p])

\* A pass with a batch of two new requests has made a claim attempt.
C22_Witness ==
    \E p \in Passes :
        /\ Len(brids[p]) = 2
        /\ pc[p] = "claim"
        /\ attempted[p] # {}
        /\ \E r \in attempted[p] : claim_calls[p][r] = 1

\* C23: when a pass fails while it evaluates candidates, it has claimed and
\* completed nothing, and the failing step leaves claims, completion and
\* results as they are.
C23_FailureWhileEvaluating ==
    [][\A p \in Passes :
          (pc[p] = "eval" /\ pc'[p] = "raised") =>
              \A r \in Requests :
                  /\ Pass(p) \notin wins'[r]
                  /\ claimedby'[r] # Pass(p)
                  /\ claim_calls'[p][r] = 0
                  /\ claimedby'[r] = claimedby[r]
                  /\ complete'[r] = complete[r]
                  /\ results'[r] = results[r]]_vars

\* A pass failed on a batch of one request for which the oracle accepts no
\* other request, so it failed while evaluating; another pass has collapsed a
\* request.
C23_Witness ==
    \E p, q \in Passes :
        /\ p # q
        /\ pc[p] = "raised"
        /\ Len(brids[p]) = 1
        /\ \A c \in Requests \ {brids[p][1]} :
              ~canBeCollapsed(buildrequests[brids[p][1]], buildrequests[c]).result
        /\ collapsed(q) # {}
        /\ \A r \in Requests : Pass(p) \notin wins[r]

\* C24: every claim is for one id; a pass that returned has attempted every
\* proposed victim, the ones it lost were held by another actor, and every
\* other one it claimed and completed.
C24_LossDoesNotStopThePass ==
    \A p \in Passes :
        /\ pc[p] = "done" => attempted[p] = brids_to_collapse[p]
        /\ \A r \in attempted[p] :
              IF r \in lost[p]
                THEN claimedby[r] # NoOne /\ claimedby[r] # Pass(p)
                ELSE /\ r \in won[p]
                     /\ r \in collapsed(p) \/ (pc[p] = "complete" /\ brid[p] = r)

\* A pass has won a claim after it lost one.
C24_Witness ==
    \E p \in Passes :
        /\ pc[p] = "complete"
        /\ lost[p] # {}
        /\ brid[p] \in won[p]
        /\ claimedby[brid[p]] = Pass(p)

\* C25: a pass attempts the claim of a proposed victim once, whatever the
\* number of new requests that proposed it, and returns its id at most once.
C25_VictimAttemptedOnce ==
    \A p \in Passes :
        /\ \A r \in Requests :
              /\ claim_calls[p][r] <= 1
              /\ claim_calls[p][r] = 1 <=> r \in attempted[p]
        /\ \A i, j \in DOMAIN collapsed_brids[p] :
              collapsed_brids[p][i] = collapsed_brids[p][j] => i = j

\* A pass returned a victim that both new requests of its batch find
\* equivalent.
C25_Witness ==
    \E p \in Passes : \E v \in collapsed(p) :
        /\ pc[p] = "done"
        /\ Len(brids[p]) = 2
        /\ v \notin Range(brids[p])
        /\ \A k \in 1..2 :
              canBeCollapsed(buildrequests[brids[p][k]], buildrequests[v]).result
        /\ claim_calls[p][v] = 1

\* C26: no new request is its own candidate, so a pass on a batch of one id
\* never proposes, claims, completes or returns that id, although the default
\* oracle accepts a request for itself.
C26_NeverOwnCandidate ==
    /\ \A n \in Requests :
          /\ n \notin VictimsOf(n)
          /\ canBeCollapsed(buildrequests[n], buildrequests[n]).result
    /\ Len(brids[1]) = 1 =>
          /\ brids[1][1] \notin brids_to_collapse[1] \cup attempted[1] \cup collapsed(1)
          /\ claim_calls[1][brids[1][1]] = 0
          /\ claimedby[brids[1][1]] # Pass(1)
          /\ ~complete[brids[1][1]]
          /\ results[brids[1][1]] = None

\* The pass returned from a batch of one unclaimed request of a builder with
\* the default collapse function, and collapsed another request.
C26_Witness ==
    /\ pc[1] = "done"
    /\ Len(brids[1]) = 1
    /\ claimedby[brids[1][1]] = NoOne
    /\ builders[buildrequests[brids[1][1]].builderid] = DefaultBuilder
    /\ collapsed_brids[1] # <<>>

\* The requests the pass can discover: unclaimed when collapse was called
\* and of the builder, registered and with a collapse function, of some new
\* request of the batch.
Discoverable(p) ==
    {r \in Requests :
        /\ Worker \notin wins[r]
        /\ \E k \in DOMAIN brids[p] :
              /\ buildrequests[brids[p][k]].builderid = buildrequests[r].builderid
              /\ builders[buildrequests[r].builderid].registered}

\* C27: alone, a pass calls claim and complete only for requests that were
\* unclaimed for the builder of some new request of its batch; every other
\* request keeps its claim, is not completed and has no result.
C27_OnlyDiscoveredAreTouched ==
    \A r \in Requests :
        r \notin Discoverable(1) =>
            /\ claim_calls[1][r] = 0
            /\ complete_calls[r] = 0
            /\ r \notin brids_to_collapse[1] \cup attempted[1] \cup collapsed(1)
            /\ claimedby[r] = (IF Worker \in wins[r] THEN Worker ELSE NoOne)
            /\ ~complete[r]
            /\ results[r] = None

\* The pass returned and collapsed a request, while a request of the same
\* builder that a worker had claimed and an unclaimed request of another
\* builder with equal content are as they were.
C27_Witness ==
    \E v, w, o \in Requests :
        /\ pc[1] = "done"
        /\ v \in collapsed(1)
        /\ buildrequests[w].builderid = buildrequests[v].builderid
        /\ claimedby[w] = Worker
        /\ buildrequests[o].builderid # buildrequests[v].builderid
        /\ claimedby[o] = NoOne /\ ~complete[o]
        /\ buildsets[buildrequests[o].buildsetid] = buildsets[buildrequests[v].buildsetid]

\* The ids the claim names: unclaimed candidates, other than the new request
\* itself, of the registered builder of a new request of the batch, which the
\* builder's collapse function accepts.
ExpectedCollapsed(p) ==
    {c \in Requests :
        \E k \in DOMAIN brids[p] :
            LET n == brids[p][k]
            IN  /\ builders[buildrequests[n].builderid].registered
                /\ builders[buildrequests[n].builderid].collapseRequestsFn # None
                /\ buildrequests[c].builderid = buildrequests[n].builderid
                /\ Worker \notin wins[c]
                /\ c # n
                /\ canBeCollapsed(buildrequests[n], buildrequests[c]).result}

C29_CodebaseSetsDiffer ==
    (/\ Evaluated
     /\ new_br.buildsetid # old_br.buildsetid
     /\ new_br.buildrequestid >= old_br.buildrequestid
     /\ DOMAIN SourcesOf(new_br.buildsetid) # DOMAIN SourcesOf(old_br.buildsetid))
    => ~canCollapse.result

\* The old request's buildset has one codebase more and is otherwise the
\* same; only the buildsets were read.
C29_Witness ==
    /\ Evaluated
    /\ new_br.buildsetid # old_br.buildsetid
    /\ new_br.buildrequestid > old_br.buildrequestid
    /\ Len(buildsets[old_br.buildsetid].sourcestamps) = 2
    /\ buildsets[new_br.buildsetid] =
          [buildsets[old_br.buildsetid] EXCEPT
              !.sourcestamps = <<buildsets[old_br.buildsetid].sourcestamps[1]>>]
    /\ ~canCollapse.result
    /\ canCollapse.reads = {"buildsets"}

\* C30: for requests of different buildsets canCollapse is true only if the
\* repository, the branch and the project of the two sourcestamps of every
\* codebase are equal, None being equal to None only.
C30_RepositoryBranchProjectMatch ==
    (/\ Evaluated
     /\ new_br.buildsetid # old_br.buildsetid
     /\ canCollapse.result)
    => /\ DOMAIN SourcesOf(new_br.buildsetid) = DOMAIN SourcesOf(old_br.buildsetid)
       /\ \A c \in DOMAIN SourcesOf(new_br.buildsetid) :
             /\ SourcesOf(new_br.buildsetid)[c].repository
                   = SourcesOf(old_br.buildsetid)[c].repository
             /\ SourcesOf(new_br.buildsetid)[c].branch
                   = SourcesOf(old_br.buildsetid)[c].branch
             /\ SourcesOf(new_br.buildsetid)[c].project
                   = SourcesOf(old_br.buildsetid)[c].project

\* The buildsets are the same but for a branch that is None on the new
\* request's side.
C30_Witness ==
    /\ Evaluated
    /\ new_br.buildsetid # old_br.buildsetid
    /\ new_br.buildrequestid > old_br.buildrequestid
    /\ buildsets[new_br.buildsetid].sourcestamps[1].branch = None
    /\ buildsets[old_br.buildsetid] =
          [buildsets[new_br.buildsetid] EXCEPT !.sourcestamps[1].branch = "main"]
    /\ ~canCollapse.result

\* Repository, branch and project are equal and neither sourcestamp has a patch.
FieldsMatchNoPatch(selfSS, otherSS) ==
    /\ selfSS.repository = otherSS.repository
    /\ selfSS.branch = otherSS.branch
    /\ selfSS.project = otherSS.project
    /\ selfSS.patch = None /\ otherSS.patch = None

\* The codebases the buildsets of the two requests share.
SharedCodebases(new, old) ==
    DOMAIN SourcesOf(new.buildsetid) \cap DOMAIN SourcesOf(old.buildsetid)

\* The loop body of lines 288-317 accepts codebase c of the two requests.
CodebaseAccepted(c, new, old) ==
    CompareSources(<<c>>, SourcesOf(new.buildsetid), SourcesOf(old.buildsetid), {}).result

\* Both sourcestamps of codebase c have changes and their other fields match.
BothSidesChanged(c, new, old) ==
    /\ FieldsMatchNoPatch(SourcesOf(new.buildsetid)[c], SourcesOf(old.buildsetid)[c])
    /\ SourcesOf(new.buildsetid)[c].changes # {}
    /\ SourcesOf(old.buildsetid)[c].changes # {}

\* Neither sourcestamp of codebase c has changes and their other fields match.
NeitherSideChanged(c, new, old) ==
    /\ FieldsMatchNoPatch(SourcesOf(new.buildsetid)[c], SourcesOf(old.buildsetid)[c])
    /\ SourcesOf(new.buildsetid)[c].changes = {}
    /\ SourcesOf(old.buildsetid)[c].changes = {}

\* C31: a codebase on which both sourcestamps have at least one change, with
\* matching repository, branch and project and no patch, is accepted whatever
\* the revisions and the change ids are; when every codebase is of that kind
\* and the filtered properties are equal, canCollapse of a newer request is
\* true.
C31_BothChangedIgnoresRevisions ==
    (Evaluated /\ new_br.buildsetid # old_br.buildsetid) =>
        /\ \A c \in SharedCodebases(new_br, old_br) :
              BothSidesChanged(c, new_br, old_br) => CodebaseAccepted(c, new_br, old_br)
        /\ (/\ new_br.buildrequestid > old_br.buildrequestid
            /\ DOMAIN SourcesOf(new_br.buildsetid) = DOMAIN SourcesOf(old_br.buildsetid)
            /\ \A c \in SharedCodebases(new_br, old_br) : BothSidesChanged(c, new_br, old_br)
            /\ filter_buildset_props_for_collapsing(buildsets[new_br.buildsetid].properties)
                 = filter_buildset_props_for_collapsing(buildsets[old_br.buildsetid].properties))
           => canCollapse.result

\* Both sides have changes, of different ids and with different revisions, and
\* the evaluation returned true.
C31_Witness ==
    /\ Evaluated
    /\ new_br.buildsetid # old_br.buildsetid
    /\ new_br.buildrequestid > old_br.buildrequestid
    /\ \E c \in SharedCodebases(new_br, old_br) :
          /\ BothSidesChanged(c, new_br, old_br)
          /\ SourcesOf(new_br.buildsetid)[c].changes # SourcesOf(old_br.buildsetid)[c].changes
          /\ SourcesOf(new_br.buildsetid)[c].revision # SourcesOf(old_br.buildsetid)[c].revision
    /\ canCollapse.result

\* C32: a codebase on which neither sourcestamp has changes, with matching
\* repository, branch and project and no patch, is accepted if and only if the
\* two revisions are equal, null being equal only to null; a differing
\* revision on such a codebase makes canCollapse false.
C32_UnchangedComparesRevisions ==
    (Evaluated /\ new_br.buildsetid # old_br.buildsetid) =>
        \A c \in SharedCodebases(new_br, old_br) :
            NeitherSideChanged(c, new_br, old_br) =>
                /\ CodebaseAccepted(c, new_br, old_br)
                     = (SourcesOf(new_br.buildsetid)[c].revision
                          = SourcesOf(old_br.buildsetid)[c].revision)
                /\ SourcesOf(new_br.buildsetid)[c].revision
                     # SourcesOf(old_br.buildsetid)[c].revision => ~canCollapse.result

\* The changes were read, neither side has any, and a null revision met a
\* revision that is set.
C32_Witness ==
    /\ Evaluated
    /\ new_br.buildsetid # old_br.buildsetid
    /\ new_br.buildrequestid > old_br.buildrequestid
    /\ "changes" \in canCollapse.reads
    /\ \E c \in SharedCodebases(new_br, old_br) :
          /\ NeitherSideChanged(c, new_br, old_br)
          /\ SourcesOf(new_br.buildsetid)[c].revision = None
          /\ SourcesOf(old_br.buildsetid)[c].revision # None
    /\ ~canCollapse.result

\* Property n is Scheduler-sourced in buildset a and absent from buildset b.
SchedulerPropOnlyIn(n, a, b) ==
    /\ n \in DOMAIN a.properties /\ a.properties[n][2] = "Scheduler"
    /\ n \notin DOMAIN b.properties

\* Property n is Scheduler-sourced in both buildsets, with different values.
SchedulerPropValuesDiffer(n, a, b) ==
    /\ n \in DOMAIN a.properties \cap DOMAIN b.properties
    /\ a.properties[n][2] = "Scheduler" /\ b.properties[n][2] = "Scheduler"
    /\ a.properties[n][1] # b.properties[n][1]

\* C33: for requests of different buildsets whose sourcestamps all match (the
\* property comparison is reached), canCollapse is false when a
\* Scheduler-sourced property with a name other than scheduler is present in
\* one buildset and absent from the other, or present in both with different
\* values.
C33_FilteredPropsComparedWhole ==
    (/\ Evaluated
     /\ new_br.buildsetid # old_br.buildsetid
     /\ "properties" \in canCollapse.reads
     /\ \E n \in PropNames \ {"scheduler"} :
           \/ SchedulerPropOnlyIn(n, buildsets[new_br.buildsetid], buildsets[old_br.buildsetid])
           \/ SchedulerPropOnlyIn(n, buildsets[old_br.buildsetid], buildsets[new_br.buildsetid])
           \/ SchedulerPropValuesDiffer(n, buildsets[new_br.buildsetid],
                                        buildsets[old_br.buildsetid]))
    => ~canCollapse.result

\* The property comparison was reached and only the old request's buildset
\* has the Scheduler-sourced property owner.
C33_Witness ==
    /\ Evaluated
    /\ new_br.buildsetid # old_br.buildsetid
    /\ "properties" \in canCollapse.reads
    /\ SchedulerPropOnlyIn("owner", buildsets[old_br.buildsetid], buildsets[new_br.buildsetid])
    /\ ~canCollapse.result

\* The row of request id in buildset bsid.
Row(id, bsid) ==
    [buildrequestid |-> id, buildsetid |-> bsid, builderid |-> 1, submitted_at |-> 1]

\* C34: for requests a, b, c of pairwise different buildsets with
\* a.id < b.id < c.id and one store state, canCollapse(c, b) and
\* canCollapse(b, a) both true imply canCollapse(c, a) true.
C34_TransitiveAlongIds ==
    \A a, b, c \in Requests : (a < b /\ b < c) =>
        \A x, y, z \in Buildsets :
            (/\ x # y /\ y # z /\ x # z
             /\ canBeCollapsed(Row(c, z), Row(b, y)).result
             /\ canBeCollapsed(Row(b, y), Row(a, x)).result)
            => canBeCollapsed(Row(c, z), Row(a, x)).result

\* canCollapse(c, a) was evaluated to true with a request b between them that
\* c subsumes and that subsumes a, the three buildsets holding different
\* content.
C34_Witness ==
    /\ Evaluated
    /\ canCollapse.result
    /\ new_br.buildsetid # old_br.buildsetid
    /\ \E b \in Requests, y \in Buildsets \ {new_br.buildsetid, old_br.buildsetid} :
          /\ old_br.buildrequestid < b /\ b < new_br.buildrequestid
          /\ canBeCollapsed(new_br, Row(b, y)).result
          /\ canBeCollapsed(Row(b, y), old_br).result
          /\ buildsets[y] # buildsets[new_br.buildsetid]
          /\ buildsets[y] # buildsets[old_br.buildsetid]
          /\ buildsets[new_br.buildsetid] # buildsets[old_br.buildsetid]

\* The two rows with the buildsets, and so their sourcestamps, changes and
\* properties, exchanged and the ids kept.
ExchangedResult(new, old) ==
    canBeCollapsed([new EXCEPT !.buildsetid = old.buildsetid],
                   [old EXCEPT !.buildsetid = new.buildsetid]).result

\* C35: for two requests of different buildsets with new.id > old.id,
\* exchanging the sourcestamps, changes and properties of the two buildsets
\* while keeping the ids does not change the result of canCollapse(new, old).
C35_ContentComparisonSymmetric ==
    (/\ Evaluated
     /\ new_br.buildsetid # old_br.buildsetid
     /\ new_br.buildrequestid > old_br.buildrequestid)
    => canCollapse.result = ExchangedResult(new_br, old_br)

\* Evaluated to false for a newer request whose buildset lacks a sourcestamp
\* or a Scheduler-sourced property that the old request's buildset has.
C35_Witness ==
    /\ Evaluated
    /\ new_br.buildsetid # old_br.buildsetid
    /\ new_br.buildrequestid > old_br.buildrequestid
    /\ \/ DOMAIN SourcesOf(new_br.buildsetid) # DOMAIN SourcesOf(old_br.buildsetid)
       \/ filter_buildset_props_for_collapsing(buildsets[new_br.buildsetid].properties)
            # filter_buildset_props_for_collapsing(buildsets[old_br.buildsetid].properties)
    /\ ~canCollapse.result
    /\ ~ExchangedResult(new_br, old_br)

\* Passes p and q both returned, both had proposed request r, and no actor
\* other than the two claimed r.
BothProposedAndReturned(p, q, r) ==
    /\ p # q
    /\ r \in brids_to_collapse[p] \cap brids_to_collapse[q]
    /\ pc[p] = "done" /\ pc[q] = "done"
    /\ wins[r] \subseteq {Pass(p), Pass(q)}

\* C36: when two collapse passes both propose the same victim, no worker
\* claims it and both passes run to completion, exactly one of the two passes
\* returns the victim's id and the victim ends complete with result SKIPPED.
C36_SharedVictimCollapsedByOne ==
    \A p, q \in Passes : \A r \in Requests :
        BothProposedAndReturned(p, q, r) =>
            /\ (r \in collapsed(p)) # (r \in collapsed(q))
            /\ complete[r] /\ results[r] = SKIPPED
            /\ complete_calls[r] = 1

\* Two passes that proposed the same victim returned; the one that made its
\* claim second lost it.
C36_Witness ==
    \E p, q \in Passes : \E r \in Requests :
        /\ BothProposedAndReturned(p, q, r)
        /\ r \in collapsed(p)
        /\ r \in lost[q]
        /\ claim_calls[p][r] = 1 /\ claim_calls[q][r] = 1

\* The builds of the builder of `build` numbered below it whose result is not
\* RETRY.
EarlierBuilds(build) ==
    {b \in data_builds :
        b.builderid = build.builderid /\ b.number < build.number /\ b.results # RETRY}

\* C37: getPreviousBuild(build) returns the build of the same builder with the
\* greatest number strictly below build.number that exists and whose result
\* is not RETRY, and None when there is none; it never returns a build
\* numbered at or above the given one and makes at most build.number lookups.
C37_PreviousBuildIsNearestBelow ==
    /\ previous.pc # "idle" => previous.lookups <= previous.build.number
    /\ previous.pc = "returned" =>
          IF EarlierBuilds(previous.build) = {}
            THEN previous.prev = NoBuild
            ELSE /\ previous.prev \in EarlierBuilds(previous.build)
                 /\ \A b \in EarlierBuilds(previous.build) : b.number <= previous.prev.number
                 /\ previous.prev.number < previous.build.number

\* A build was returned after a build to be retried and a missing number
\* were passed over.
C37_Witness ==
    /\ previous.pc = "returned"
    /\ previous.prev # NoBuild
    /\ previous.lookups >= 3
    /\ \E b \in data_builds :
          /\ b.builderid = previous.build.builderid
          /\ b.results = RETRY
          /\ previous.prev.number < b.number /\ b.number < previous.build.number
    /\ \E n \in BuildNumbers :
          /\ previous.prev.number < n /\ n < previous.build.number
          /\ GetBuild(previous.build.builderid, n) = NoBuild

\* The collapse function of the builder of `new` returns the boolean True
\* for the pair (new, candidate).
ReturnsTrueFor(new, candidate) ==
    /\ new # candidate
    /\ buildrequests[new].builderid = buildrequests[candidate].builderid
    /\ CallCollapseRequestsFn(builders[buildrequests[new].builderid].collapseRequestsFn,
                              buildrequests[new], buildrequests[candidate]) = PyTrue

\* C38: a candidate is proposed, claimed or completed by a pass only when the
\* builder's collapse function returned the boolean True for it and a request
\* of the batch: a function returning any other value, a truthy non-boolean
\* included, causes no claim and no completion.
C38_OnlyTrueProposes ==
    \A p \in Passes : \A r \in Requests :
        (\/ r \in brids_to_collapse[p]
         \/ claim_calls[p][r] > 0
         \/ claimedby[r] = Pass(p)
         \/ r \in completed_by[p] \cup collapsed(p))
        => \E new \in Range(brids[p]) : ReturnsTrueFor(new, r)

\* A pass returned, with nothing proposed or claimed, for a builder whose
\* collapse function returns 1 and which has a candidate other than the new
\* request.
C38_Witness ==
    /\ pc[1] = "done"
    /\ builders[1].collapseRequestsFn = "returnsOne"
    /\ \E new \in Range(brids[1]) : \E r \in UnclaimedOf(buildrequests[new].builderid) :
          r # new
    /\ brids_to_collapse[1] = {}
    /\ \A r \in Requests : claim_calls[1][r] = 0 /\ claimedby[r] # Pass(1) /\ ~complete[r]

====
